---------------------------- MODULE Spec2Model ----------------------------
(***************************************************************************)
(* Model of a_stock_quote.py: symbol resolution (SpecNormalize,            *)
(* SpecResolve), the retrying multi-endpoint fetch (SpecFetch,             *)
(* SpecBackoff), the quote line decoder (SpecParse), the history fetch     *)
(* (SpecHistory), the indicators (SpecSma, SpecEma, SpecMacd, SpecKdj,     *)
(* SpecOrder) and the query cycle (SpecQuery, and SpecQueryHistory with    *)
(* its history fetches made request by request).                           *)
(*                                                                         *)
(* Text is modelled as a sequence of characters.  An ASCII character is    *)
(* the one-character string holding it; a character outside ASCII is the   *)
(* string "U+XXXX" naming its code point.                                  *)
(***************************************************************************)
EXTENDS Integers, Sequences, FiniteSets, TLC

VARIABLES
    pc,              \* control position of the operation being run
    \* http_get_text
    max_retries,     \* its max_retries argument
    attempt,         \* loop variable of "for attempt in range(max_retries + 1)"
    last_exception,  \* its local last_exception
    slept,           \* history: the delays slept since the last request was issued
    \* fetch_sina_quotes
    endpoints,       \* number of entries of its endpoints list
    idx,             \* zero-based index of the endpoint being tried
    fetch_exception, \* its local last_exception
    fetch_result,    \* what the call gave its caller: nothing yet, a text, an error
    requests,        \* history: every request issued, in order
    \* normalize_codes
    codes,           \* its argument
    normalized,      \* its return value
    renormalized,    \* normalize_codes([c]) for each c it returned
    \* resolve_inputs_to_prefixed_codes
    inputs,          \* its argument
    pos,             \* one-based position of the token being resolved
    resolved,        \* its local resolved
    seen,            \* its local seen
    url_idx,         \* suggest_full_codes_for_key: one-based index into urls
    replied,         \* history: a suggest request for this token returned a text
    trace,           \* history: per token handled, how it was settled
    \* parse_sina_line
    line,            \* its argument
    parsed,          \* its return value
    \* fetch_daily_klines_from_eastmoney, fetch_minute_klines_from_eastmoney
    klt,             \* the klt of the query: 101 (daily bars) or the minutes of a bar
    \* _simple_moving_average, _ema, compute_kdj_j, compute_macd_status,
    \* compute_order_metrics
    values,          \* the values argument
    window,          \* the window argument
    period,          \* the period argument
    bars,            \* the bars argument; in a query cycle, bars_daily
    quote,           \* the quote argument
    out,             \* what the function computed
    \* query_and_display
    show_detail,     \* its show_detail argument
    quotes,          \* its local quotes: the dict fetch_sina_quotes returned
    code_idx,        \* how many codes "for full_code in normalized" is done with
    details,         \* its local details
    printed          \* history: the blocks printed, in order

vars == <<pc, max_retries, attempt, last_exception, slept, endpoints, idx,
          fetch_exception, fetch_result, requests, codes, normalized,
          renormalized, inputs, pos, resolved, seen, url_idx, replied,
          trace, line, parsed, klt, values, window, period, bars, quote, out,
          show_detail, quotes, code_idx, details, printed>>

httpVars    == <<max_retries, attempt, last_exception, slept>>
fetchVars   == <<endpoints, idx, fetch_exception, fetch_result, requests>>
normVars    == <<codes, normalized, renormalized>>
resolveVars == <<inputs, pos, resolved, seen, url_idx, replied, trace>>
parseVars   == <<line, parsed>>
histVars    == <<klt>>
calcVars    == <<values, window, period, bars, quote, out>>
queryVars   == <<show_detail, quotes, code_idx, details, printed>>
restVars    == <<histVars, calcVars, queryVars>>

None == "None"   \* an exception variable that holds no exception

-----------------------------------------------------------------------------
(* Bounds of the model.                                                    *)

MaxRetriesBound == 3   \* largest max_retries a fetch is started with
MaxEndpoints    == 2   \* longest endpoints list a fetch is started with
MaxDigits       == 7   \* longest run of digits in a token
MaxCodes        == 2   \* longest list handed to normalize_codes
MaxInputs       == 3   \* longest batch handed to the resolver
MaxBackoffRetries == 5 \* largest max_retries of a fetch that shows the ceiling of the delay

-----------------------------------------------------------------------------
(* Python str methods over character sequences.                            *)

UpperLetters == <<"A","B","C","D","E","F","G","H","I","J","K","L","M",
                  "N","O","P","Q","R","S","T","U","V","W","X","Y","Z">>
LowerLetters == <<"a","b","c","d","e","f","g","h","i","j","k","l","m",
                  "n","o","p","q","r","s","t","u","v","w","x","y","z">>
DigitChars   == <<"0","1","2","3","4","5","6","7","8","9">>

Range(s) == { s[i] : i \in DOMAIN s }

Whitespace == {" ", "\t", "\n", "\r"}

LowerChar(c) ==
    IF \E i \in DOMAIN UpperLetters : UpperLetters[i] = c
    THEN LowerLetters[CHOOSE i \in DOMAIN UpperLetters : UpperLetters[i] = c]
    ELSE c

UpperChar(c) ==
    IF \E i \in DOMAIN LowerLetters : LowerLetters[i] = c
    THEN UpperLetters[CHOOSE i \in DOMAIN LowerLetters : LowerLetters[i] = c]
    ELSE c

Lower(s) == [i \in DOMAIN s |-> LowerChar(s[i])]
Upper(s) == [i \in DOMAIN s |-> UpperChar(s[i])]

IsDigit(s) == Len(s) > 0 /\ \A i \in DOMAIN s : s[i] \in Range(DigitChars)

\* s.strip(chars): drop leading and trailing characters that are in chars
StripChars(s, chars) ==
    IF \A i \in DOMAIN s : s[i] \in chars
    THEN << >>
    ELSE LET lo == CHOOSE i \in DOMAIN s :
                       s[i] \notin chars /\ \A j \in 1..(i-1) : s[j] \in chars
             hi == CHOOSE i \in DOMAIN s :
                       s[i] \notin chars /\ \A j \in (i+1)..Len(s) : s[j] \in chars
         IN  SubSeq(s, lo, hi)

Strip(s) == StripChars(s, Whitespace)

StartsWith(s, p) == Len(s) >= Len(p) /\ SubSeq(s, 1, Len(p)) = p

EndsWith(s, p) == Len(s) >= Len(p) /\ SubSeq(s, Len(s) - Len(p) + 1, Len(s)) = p

\* s.zfill(width)
Zfill(s, width) ==
    IF Len(s) >= width THEN s
    ELSE [i \in 1..(width - Len(s)) |-> "0"] \o s

\* s[n-1:] written for s[n:]
FromOffByOne(s, n) == SubSeq(s, n, Len(s))

\* s[n:]
From(s, n) == SubSeq(s, n + 1, Len(s))

\* s[:n]
Upto(s, n) == SubSeq(s, 1, IF n < Len(s) THEN n ELSE Len(s))

SH == <<"s","h">>
SZ == <<"s","z">>
BJ == <<"b","j">>
HK == <<"h","k">>

-----------------------------------------------------------------------------
(* Python float: IEEE 754 binary64 with round-to-nearest, ties-to-even.    *)
(* A natural number of any size is a sequence of limbs, least significant  *)
(* first, without a leading zero limb; a finite float is a sign, such a    *)
(* natural number below 2^53 (0, or at least 2^52) and a binary exponent.   *)
(* The exponent is not bounded: overflow to inf and the subnormal range    *)
(* lie far outside the values the indicators are applied to here.          *)

RECURSIVE BitLenOfInt(_)
BitLenOfInt(n) == IF n = 0 THEN 0 ELSE 1 + BitLenOfInt(n \div 2)

Limb     == 2^15     \* small enough for the product of two limbs to be an int
LimbBits == BitLenOfInt(Limb - 1)
Mantissa == 52 + 1   \* significand bits of a binary64: 52 stored, one implicit

RECURSIVE NOfInt(_)
NOfInt(n) == IF n = 0 THEN << >> ELSE << n % Limb >> \o NOfInt(n \div Limb)

RECURSIVE NTrim(_)
NTrim(a) ==
    IF a = << >> THEN a
    ELSE IF a[Len(a)] = 0 THEN NTrim(SubSeq(a, 1, Len(a) - 1))
    ELSE a

NLimb(a, i) == IF i <= Len(a) THEN a[i] ELSE 0

\* -1, 0, 1 as a < b, a = b, a > b
NCmp(a, b) ==
    IF Len(a) # Len(b) THEN (IF Len(a) < Len(b) THEN -1 ELSE 1)
    ELSE LET D == { i \in DOMAIN a : a[i] # b[i] }
         IN  IF D = {} THEN 0
             ELSE LET i == CHOOSE j \in D : \A k \in D : k <= j
                  IN  IF a[i] < b[i] THEN -1 ELSE 1

RECURSIVE NAddFrom(_, _, _, _)
NAddFrom(a, b, i, carry) ==
    IF i > Len(a) /\ i > Len(b)
    THEN (IF carry = 0 THEN << >> ELSE << carry >>)
    ELSE LET t == NLimb(a, i) + NLimb(b, i) + carry
         IN  << t % Limb >> \o NAddFrom(a, b, i + 1, t \div Limb)

NAdd(a, b) == NAddFrom(a, b, 1, 0)

\* a - b for a >= b
RECURSIVE NSubFrom(_, _, _, _)
NSubFrom(a, b, i, borrow) ==
    IF i > Len(a) THEN << >>
    ELSE LET t == a[i] - NLimb(b, i) - borrow
         IN  IF t < 0 THEN << t + Limb >> \o NSubFrom(a, b, i + 1, 1)
                      ELSE << t >> \o NSubFrom(a, b, i + 1, 0)

NSub(a, b) == NTrim(NSubFrom(a, b, 1, 0))

\* a * m for 0 <= m < Limb
RECURSIVE NMulSmallFrom(_, _, _, _)
NMulSmallFrom(a, m, i, carry) ==
    IF i > Len(a) THEN (IF carry = 0 THEN << >> ELSE << carry >>)
    ELSE LET t == a[i] * m + carry
         IN  << t % Limb >> \o NMulSmallFrom(a, m, i + 1, t \div Limb)

NMulSmall(a, m) == IF m = 0 THEN << >> ELSE NMulSmallFrom(a, m, 1, 0)

\* a * Limb^k
NShiftLimbs(a, k) == IF a = << >> THEN a ELSE [i \in 1..k |-> 0] \o a

RECURSIVE NMulFrom(_, _, _)
NMulFrom(a, b, i) ==
    IF i > Len(b) THEN << >>
    ELSE NAdd(NShiftLimbs(NMulSmall(a, b[i]), i - 1), NMulFrom(a, b, i + 1))

NMul(a, b) == NMulFrom(a, b, 1)

\* floor(a / d) for 0 < d < Limb, limbs from the most significant down
RECURSIVE NDivSmallFrom(_, _, _, _)
NDivSmallFrom(a, d, i, rem) ==
    IF i = 0 THEN << >>
    ELSE LET t == rem * Limb + a[i]
         IN  NDivSmallFrom(a, d, i - 1, t % d) \o << t \div d >>

NDivSmall(a, d) == NTrim(NDivSmallFrom(a, d, Len(a), 0))

NBitLen(a) == IF a = << >> THEN 0 ELSE (Len(a) - 1) * LimbBits + BitLenOfInt(a[Len(a)])

\* a * 2^s
NShl(a, s) == NShiftLimbs(NMulSmall(a, 2^(s % LimbBits)), s \div LimbBits)

\* floor(a / 2^s)
NShr(a, s) ==
    IF s \div LimbBits >= Len(a) THEN << >>
    ELSE NDivSmall(SubSeq(a, s \div LimbBits + 1, Len(a)), 2^(s % LimbBits))

\* bit i of a, bit 0 the least significant
NBit(a, i) == (NLimb(a, i \div LimbBits + 1) \div 2^(i % LimbBits)) % 2

\* the s low bits of a are all 0
NLowZero(a, s) ==
    /\ \A i \in 1..(s \div LimbBits) : NLimb(a, i) = 0
    /\ NLimb(a, s \div LimbBits + 1) % 2^(s % LimbBits) = 0

FZero == [cls |-> "finite", sign |-> 0, man |-> << >>, exp |-> 0]

\* float("inf")
FInf == [cls |-> "inf", sign |-> 0, man |-> << >>, exp |-> 0]

\* what a division by 0.0 gives: ZeroDivisionError is raised
FRaised == [cls |-> "ZeroDivisionError", sign |-> 0, man |-> << >>, exp |-> 0]

\* The binary64 nearest to (-1)^sign * (n + f) * 2^e, where 0 <= f < 1 and
\* sticky tells f > 0; ties go to the even significand.
FRound(sign, n, e, sticky) ==
    LET len == NBitLen(n)
    IN  IF len = 0 THEN FZero
        ELSE IF len <= Mantissa
        THEN [cls |-> "finite", sign |-> sign,
              man |-> NShl(n, Mantissa - len), exp |-> e - (Mantissa - len)]
        ELSE LET s    == len - Mantissa
                 q    == NShr(n, s)
                 half == NBit(n, s - 1) = 1
                 rest == ~NLowZero(n, s - 1) \/ sticky
                 up   == half /\ (rest \/ q[1] % 2 = 1)
                 r    == IF up THEN NAdd(q, << 1 >>) ELSE q
             IN  IF NBitLen(r) > Mantissa
                 THEN [cls |-> "finite", sign |-> sign, man |-> NShr(r, 1), exp |-> e + s + 1]
                 ELSE [cls |-> "finite", sign |-> sign, man |-> r, exp |-> e + s]

\* float(n) of an int n
FromInt(n) == FRound(IF n < 0 THEN 1 ELSE 0, NOfInt(IF n < 0 THEN -n ELSE n), 0, FALSE)

FNeg(a) == IF a.man = << >> THEN a ELSE [a EXCEPT !.sign = 1 - a.sign]

\* An operand that is not a finite number: the error goes on.  (inf is
\* only ever returned, it is no operand of the arithmetic modelled here.)
NotFinite(a, b) == a.cls # "finite" \/ b.cls # "finite"
Propagate(a, b) == IF a.cls # "finite" THEN a ELSE b

\* a * b
FMul(a, b) ==
    IF NotFinite(a, b) THEN Propagate(a, b)
    ELSE FRound((a.sign + b.sign) % 2, NMul(a.man, b.man), a.exp + b.exp, FALSE)

\* a + b
FAdd(a, b) ==
    IF NotFinite(a, b) THEN Propagate(a, b)
    ELSE IF a.man = << >> THEN b
    ELSE IF b.man = << >> THEN a
    ELSE LET e  == IF a.exp < b.exp THEN a.exp ELSE b.exp
             x  == NShl(a.man, a.exp - e)
             y  == NShl(b.man, b.exp - e)
             c  == NCmp(x, y)
         IN  IF a.sign = b.sign THEN FRound(a.sign, NAdd(x, y), e, FALSE)
             ELSE IF c = 0 THEN FZero
             ELSE IF c > 0 THEN FRound(a.sign, NSub(x, y), e, FALSE)
             ELSE FRound(b.sign, NSub(y, x), e, FALSE)

\* a - b
FSub(a, b) == FAdd(a, FNeg(b))

\* The bits of floor(r * 2^(n-1) / d) for r < 2 * d, most significant
\* first, and whether the division left a remainder
RECURSIVE DivBits(_, _, _, _)
DivBits(r, d, q, n) ==
    IF n = 0 THEN << q, r # << >> >>
    ELSE IF Len(q) >= 0 /\ NCmp(r, d) >= 0
         THEN DivBits(NMulSmall(NSub(r, d), 2), d, NAdd(NMulSmall(q, 2), << 1 >>), n - 1)
         ELSE DivBits(NMulSmall(r, 2), d, NMulSmall(q, 2), n - 1)

\* a / b
FDiv(a, b) ==
    IF NotFinite(a, b) THEN Propagate(a, b)
    ELSE IF b.man = << >> THEN FRaised
    ELSE IF a.man = << >> THEN FZero
    ELSE LET qr == DivBits(a.man, b.man, << >>, Mantissa + 3)
         IN  FRound((a.sign + b.sign) % 2, qr[1], a.exp - b.exp - (Mantissa + 2), qr[2])

\* -1, 0, 1 as a < b, a == b, a > b
FCmp(a, b) ==
    LET d == FSub(a, b)
    IN  IF d.man = << >> THEN 0 ELSE IF d.sign = 1 THEN -1 ELSE 1

-----------------------------------------------------------------------------
(* infer_exchange_prefix and normalize_codes.                              *)

\* An Optional[str] is an empty tuple (None) or a one-element tuple.
Nothing == << >>
Some(x) == <<x>>

\* infer_exchange_prefix with "5" left out of the Shanghai digits
infer_exchange_prefix_no5(stock_code) ==
    LET code == Lower(Strip(stock_code))
    IN  IF code = << >> THEN Nothing
        ELSE IF \E p \in {SH, SZ, BJ, HK} : StartsWith(code, p)
             THEN Some(Upto(code, 2))
        ELSE IF ~IsDigit(code) \/ Len(code) # 6 THEN Nothing
        ELSE IF code[1] \in {"6", "9"} THEN Some(SH)
        ELSE IF code[1] \in {"0", "2", "3"} THEN Some(SZ)
        ELSE IF code[1] \in {"4", "8"} THEN Some(BJ)
        ELSE Nothing

infer_exchange_prefix(stock_code) ==
    LET code == Lower(Strip(stock_code))
    IN  IF code = << >> THEN Nothing
        ELSE IF \E p \in {SH, SZ, BJ, HK} : StartsWith(code, p)
             THEN Some(Upto(code, 2))
        ELSE IF ~IsDigit(code) \/ Len(code) # 6 THEN Nothing
        ELSE IF code[1] \in {"6", "9", "5"} THEN Some(SH)
        ELSE IF code[1] \in {"0", "2", "3"} THEN Some(SZ)
        ELSE IF code[1] \in {"4", "8"} THEN Some(BJ)
        ELSE Nothing

\* The body of the loop of normalize_codes for one raw code: the value of
\* full, or Nothing where the loop executes "continue".
normalize_one(raw) ==
    LET code == Lower(Strip(raw))
    IN  IF code = << >> THEN Nothing
        ELSE IF \E p \in {SH, SZ, BJ} : StartsWith(code, p) THEN Some(code)
        ELSE IF StartsWith(code, HK) THEN
            LET tail == From(code, 2)
            IN  Some(HK \o (IF IsDigit(tail) THEN Zfill(tail, 5) ELSE Upper(tail)))
        ELSE IF IsDigit(code) THEN
            IF Len(code) = 6 THEN
                LET prefix == infer_exchange_prefix(code)
                IN  IF prefix = Nothing THEN Nothing ELSE Some(prefix[1] \o code)
            ELSE IF 1 <= Len(code) /\ Len(code) <= 5
                 THEN Some(HK \o Zfill(code, 5))
            ELSE Nothing
        ELSE Nothing

RECURSIVE normalize_loop(_, _)
normalize_loop(cs, acc) ==
    IF cs = << >> THEN acc
    ELSE LET full == normalize_one(Head(cs))
         IN  IF full = Nothing \/ full[1] \in Range(acc)
             THEN normalize_loop(Tail(cs), acc)
             ELSE normalize_loop(Tail(cs), Append(acc, full[1]))

normalize_codes(cs) == normalize_loop(cs, << >>)

-----------------------------------------------------------------------------
(* Inputs of normalize_codes: a token is a prefix, a run of digits and a   *)
(* suffix.                                                                 *)

\* d followed by n-1 further digits (n = 0: the empty run)
DigitRun(d, n) == [i \in 1..n |-> IF i = 1 THEN DigitChars[d + 1] ELSE DigitChars[((d + i) % 10) + 1]]

DigitRuns == { DigitRun(d, n) : d \in 0..9, n \in 0..MaxDigits }

TokenPrefixes == { << >>, SH, <<"S","Z">>, BJ, HK, <<"H","k">>,
                   <<" ","s","h">>, <<"x">>, <<"s">> }

TokenSuffixes == { << >>, <<"a">>, <<" ">>, <<"A","b">> }

\* The tokens the documentation gives as examples
ExampleTokens == { <<"6","0","0","5","1","9">>, <<"0","0","0","0","0","1">>,
                   <<"4","3","0","0","4","7">>, <<"7","0","0">>,
                   <<"s","h","6","0","0","5","1","9">>, <<"H","S","I">> }

NormTokens ==
    ExampleTokens \cup
    { p \o r \o x : p \in TokenPrefixes, r \in DigitRuns, x \in TokenSuffixes }

\* Short lists, with repeats, of tokens that collide after normalization
ListTokens == { <<"6","0","0","5","1","9">>, <<"s","h","6","0","0","5","1","9">>,
                <<"7","0","0">>, <<"h","k","0","0","7","0","0">>, <<"x">> }

RECURSIVE SeqsUpTo(_, _)
SeqsUpTo(S, n) ==
    IF n = 0 THEN { << >> }
    ELSE LET shorter == SeqsUpTo(S, n - 1)
         IN  shorter \cup { Append(s, x) : s \in { t \in shorter : Len(t) = n - 1 }, x \in S }

NormInputs == { <<t>> : t \in NormTokens } \cup SeqsUpTo(ListTokens, MaxCodes)

-----------------------------------------------------------------------------
(* Values of the variables an operation does not use.                      *)

HttpIdle    == max_retries = 0 /\ attempt = 0 /\ last_exception = None /\ slept = << >>
FetchIdle   == /\ endpoints = 0 /\ idx = 0 /\ fetch_exception = None
               /\ fetch_result = [kind |-> "none"] /\ requests = << >>
NormIdle    == codes = << >> /\ normalized = << >> /\ renormalized = << >>
ResolveIdle == /\ inputs = << >> /\ pos = 0 /\ resolved = << >> /\ seen = {}
               /\ url_idx = 0 /\ replied = FALSE /\ trace = << >>
ParseIdle   == line = << >> /\ parsed = Nothing
HistIdle    == klt = 0
CalcIdle    == /\ values = << >> /\ window = 0 /\ period = 0 /\ bars = << >>
               /\ quote = Nothing /\ out = Nothing
QueryIdle   == /\ show_detail = FALSE /\ quotes = << >> /\ code_idx = 0
               /\ details = << >> /\ printed = << >>
RestIdle    == HistIdle /\ CalcIdle /\ QueryIdle

-----------------------------------------------------------------------------
(* SpecNormalize: normalize_codes applied to a list of raw codes, then to  *)
(* each code it returned.                                                  *)

InitNormalize ==
    /\ pc = "normalize"
    /\ codes \in NormInputs
    /\ normalized = << >> /\ renormalized = << >>
    /\ HttpIdle /\ FetchIdle /\ ResolveIdle /\ ParseIdle /\ RestIdle

Normalize ==
    /\ pc = "normalize"
    /\ normalized' = normalize_codes(codes)
    /\ pc' = "normalized"
    /\ UNCHANGED <<codes, renormalized, httpVars, fetchVars, resolveVars, parseVars, restVars>>

Renormalize ==
    /\ pc = "normalized"
    /\ renormalized' = [i \in DOMAIN normalized |-> normalize_codes(<<normalized[i]>>)]
    /\ pc' = "renormalized"
    /\ UNCHANGED <<codes, normalized, httpVars, fetchVars, resolveVars, parseVars, restVars>>

NextNormalize == Normalize \/ Renormalize

SpecNormalize == InitNormalize /\ [][NextNormalize]_vars

\* C5: normalizing a code that normalize_codes returned gives back exactly
\* that code.
NormalizeIdempotent ==
    pc = "renormalized" =>
        \A i \in DOMAIN normalized : renormalized[i] = <<normalized[i]>>

\* An hk code with an upper-cased alphanumeric tail has been normalized again.
NormalizeIdempotentWitness ==
    /\ pc = "renormalized"
    /\ normalized = << <<"h","k","7","A","B">> >>
    /\ renormalized = << normalized >>

\* s left-padded with "0" to five characters
PadFive(s) == [i \in 1..5 |-> IF i <= 5 - Len(s) THEN "0" ELSE s[i - (5 - Len(s))]]

\* C6: an unprefixed all-digit token of 6 digits maps to sh, sz or bj by its
\* leading digit (6 9 5 / 0 2 3 / 4 8) and is unresolved for 1 and 7; one of
\* 1 to 5 digits maps to hk and the digits zero-padded to 5; one of 7 or
\* more digits is unresolved.
DigitTokenMarket ==
    (pc # "normalize" /\ Len(codes) = 1 /\ IsDigit(Strip(codes[1]))) =>
        LET t == Strip(codes[1])
        IN  normalized =
                IF Len(t) = 6 THEN
                    IF t[1] \in {"6", "9", "5"} THEN << SH \o t >>
                    ELSE IF t[1] \in {"0", "2", "3"} THEN << SZ \o t >>
                    ELSE IF t[1] \in {"4", "8"} THEN << BJ \o t >>
                    ELSE << >>
                ELSE IF Len(t) <= 5 THEN << HK \o PadFive(t) >>
                ELSE << >>

\* A six-digit token with leading digit 5 has been normalized.
DigitTokenMarketWitness ==
    /\ pc = "normalized"
    /\ codes = << <<"5","7","8","9","0","1">> >>
    /\ normalized = << <<"s","h","5","7","8","9","0","1">> >>

-----------------------------------------------------------------------------
(* SpecFetch: fetch_sina_quotes, the loop over its endpoints list, around  *)
(* http_get_text, the retry loop on one url.  A step is one request and    *)
(* everything the two loops do with its outcome before the next request.   *)

DefaultMaxRetries == 3   \* http_get_text(..., max_retries: int = 3)
QuoteMaxRetries   == 3   \* fetch_sina_quotes passes max_retries=3
QuoteEndpoints    == 2   \* fetch_sina_quotes: primary and fallback host

\* What a request can raise, and what a reply can carry
Errors == {"timeout", "refused"}
Bodies == {"body_a", "body_b"}

BackoffCap == 8   \* min(2 ** attempt, 8)

\* "2 ** attempt" written for "min(2 ** attempt, 8)"
BaseDelayUncapped(a) == 2^a

\* base_delay = min(2 ** attempt, 8)
BaseDelay(a) == IF 2^a < BackoffCap THEN 2^a ELSE BackoffCap

\* What random.random() can return, a float in [0.0, 1.0): the least and
\* the greatest
RandomDraws == { FZero, FSub(FromInt(1), FRound(0, << 1 >>, -Mantissa, FALSE)) }

\* random.uniform(a, b) for a = 0: a + (b - a) * random()
UniformFromZero(b, r) == FAdd(FZero, FMul(FSub(b, FZero), r))

\* delay = base_delay + jitter, jitter = random.uniform(0, 0.3 * base_delay)
Delay(a, r) ==
    LET base_delay == FromInt(BaseDelay(a))
    IN  FAdd(base_delay,
             UniformFromZero(FMul(FDiv(FromInt(3), FromInt(10)), base_delay), r))

\* The delays that can follow the failed attempt a, for every attempt that
\* has a retry after it
Delays == [a \in 0..(MaxRetriesBound + MaxBackoffRetries) |->
              { Delay(a, r) : r \in RandomDraws }]

\* time.sleep(delay) after the failed attempt a
Sleep(a) == \E d \in Delays[a] : slept' = << d >>

\* The attempt is followed by no sleep
NoSleep == slept' = << >>

\* range(max_retries) in place of range(max_retries + 1)
RangeEndShort(mr) == mr

\* for attempt in range(max_retries + 1)
RangeEnd(mr) == mr + 1

\* "if last_exception is None: last_exception = e": the first error is kept
KeepFirstException(prev, e) == IF prev = None THEN e ELSE prev

\* except Exception as e: last_exception = e
RecordException(prev, e) == e

\* "return result" indented under "if idx > 0"
ReturnsOnFallbackOnly(i) == i > 0

\* fetch_sina_quotes returns whenever http_get_text returned
ReturnsResult(i) == TRUE

\* The endpoint loop after the body for endpoint idx ended without a return:
\* the next endpoint, or after the last one the raise / return {} below it.
EndpointLoopAdvance(exc) ==
    IF idx < endpoints - 1
    THEN /\ idx' = idx + 1
         /\ attempt' = 0
         /\ last_exception' = None
         /\ fetch_result' = fetch_result
         /\ pc' = "request"
    ELSE /\ UNCHANGED <<idx, attempt, last_exception>>
         /\ fetch_result' = IF exc # None
                             THEN [kind |-> "error", error |-> exc]
                             ELSE [kind |-> "empty"]
         /\ pc' = "done"

\* The endpoints list and max_retries are arguments of the two loops;
\* fetch_sina_quotes itself runs them with QuoteEndpoints and QuoteMaxRetries.
InitFetch ==
    /\ pc = "request"
    /\ endpoints \in 1..MaxEndpoints
    /\ max_retries \in 0..MaxRetriesBound
    /\ idx = 0 /\ attempt = 0
    /\ last_exception = None /\ fetch_exception = None
    /\ slept = << >>
    /\ fetch_result = [kind |-> "none"]
    /\ requests = << >>
    /\ NormIdle /\ ResolveIdle /\ ParseIdle /\ RestIdle

\* The request returns a reply: http_get_text returns its text and
\* fetch_sina_quotes returns what it parsed from it.
AttemptSucceeds(body) ==
    /\ pc = "request"
    /\ requests' = Append(requests, [endpoint |-> idx, attempt |-> attempt,
                                      ok |-> TRUE, reply |-> body])
    /\ IF ReturnsResult(idx)
       THEN /\ fetch_result' = [kind |-> "text", endpoint |-> idx, text |-> body]
            /\ pc' = "done"
            /\ UNCHANGED <<idx, attempt, last_exception>>
       ELSE EndpointLoopAdvance(fetch_exception)
    /\ NoSleep
    /\ UNCHANGED <<max_retries, endpoints, fetch_exception, normVars, resolveVars, parseVars, restVars>>

\* The request raises and the retry loop has a further iteration.
AttemptFailsRetry(e) ==
    /\ pc = "request"
    /\ attempt + 1 < RangeEnd(max_retries)
    /\ requests' = Append(requests, [endpoint |-> idx, attempt |-> attempt,
                                      ok |-> FALSE, reply |-> e])
    /\ last_exception' = RecordException(last_exception, e)
    /\ Sleep(attempt)
    /\ attempt' = attempt + 1
    /\ UNCHANGED <<pc, max_retries, endpoints, idx, fetch_exception, fetch_result,
                   normVars, resolveVars, parseVars, restVars>>

\* The request raises on the last iteration: http_get_text raises its
\* last_exception, fetch_sina_quotes records it and goes on.
AttemptFailsFinal(e) ==
    /\ pc = "request"
    /\ ~(attempt + 1 < RangeEnd(max_retries))
    /\ requests' = Append(requests, [endpoint |-> idx, attempt |-> attempt,
                                      ok |-> FALSE, reply |-> e])
    /\ LET raised == RecordException(last_exception, e)
       IN  /\ fetch_exception' = raised
           /\ EndpointLoopAdvance(raised)
    /\ NoSleep
    /\ UNCHANGED <<max_retries, endpoints, normVars, resolveVars, parseVars, restVars>>

NextFetch ==
    \/ \E body \in Bodies : AttemptSucceeds(body)
    \/ \E e \in Errors : AttemptFailsRetry(e)
    \/ \E e \in Errors : AttemptFailsFinal(e)

SpecFetch == InitFetch /\ [][NextFetch]_vars

AllFailed == \A k \in DOMAIN requests : ~requests[k].ok

\* C1: when every request fails, the terminal error comes after exactly
\* endpoints * (max_retries + 1) requests, max_retries + 1 consecutive ones
\* per endpoint in list order.
AllFailIssuesEveryAttempt ==
    (pc = "done" /\ AllFailed) =>
        /\ fetch_result.kind = "error"
        /\ Len(requests) = endpoints * (max_retries + 1)
        /\ \A k \in DOMAIN requests :
              /\ requests[k].endpoint = (k - 1) \div (max_retries + 1)
              /\ requests[k].attempt = (k - 1) % (max_retries + 1)

\* Two endpoints, max_retries = 2: six failed requests, then the error.
AllFailIssuesEveryAttemptWitness ==
    /\ pc = "done" /\ AllFailed
    /\ endpoints = 2 /\ max_retries = 2
    /\ Len(requests) = 6
    /\ fetch_result.kind = "error"

\* C2: a request to an endpoint comes only after every one of the
\* max_retries + 1 attempts on each earlier endpoint failed; a successful
\* request is the last one issued and the fetch returns its text.
LaterEndpointOnlyAfterExhaustion ==
    \A k \in DOMAIN requests :
        /\ \A i \in 0..(requests[k].endpoint - 1) : \A a \in 0..max_retries :
              \E j \in 1..(k - 1) :
                  /\ requests[j].endpoint = i /\ requests[j].attempt = a
                  /\ ~requests[j].ok
        /\ requests[k].ok =>
              /\ k = Len(requests)
              /\ pc = "done"
              /\ fetch_result = [kind |-> "text", endpoint |-> requests[k].endpoint,
                                  text |-> requests[k].reply]

\* The first of two endpoints fails once and succeeds on its second attempt.
LaterEndpointOnlyAfterExhaustionWitness ==
    /\ pc = "done"
    /\ endpoints = 2 /\ max_retries = 2
    /\ Len(requests) = 2
    /\ ~requests[1].ok /\ requests[2].ok
    /\ requests[2].endpoint = 0
    /\ fetch_result.kind = "text" /\ fetch_result.endpoint = 0

\* C3: when every endpoint exhausts its retries the fetch ends in an error,
\* and the error is the one of the final attempt on the last endpoint.
ErrorIsLastAttemptsError ==
    (pc = "done" /\ AllFailed) =>
        /\ fetch_result.kind = "error"
        /\ fetch_result.error = requests[Len(requests)].reply
        /\ requests[Len(requests)].endpoint = endpoints - 1
        /\ requests[Len(requests)].attempt = max_retries

\* The code's own configuration: 2 endpoints, max_retries = 3, the last of
\* the 8 errors differs from all the earlier ones and is the one raised.
ErrorIsLastAttemptsErrorWitness ==
    /\ pc = "done" /\ AllFailed
    /\ endpoints = QuoteEndpoints /\ max_retries = QuoteMaxRetries
    /\ Len(requests) = 8
    /\ \A k \in 1..7 : requests[k].reply = "timeout"
    /\ requests[8].reply = "refused"
    /\ fetch_result = [kind |-> "error", error |-> "refused"]

-----------------------------------------------------------------------------
(* More str methods: find, rfind, split.                                   *)

\* s.find(sub): zero-based index of the first occurrence, -1 if none
Find(s, sub) ==
    LET hits == { i \in 1..(Len(s) - Len(sub) + 1) : SubSeq(s, i, i + Len(sub) - 1) = sub }
    IN  IF hits = {} THEN -1
        ELSE (CHOOSE i \in hits : \A j \in hits : i <= j) - 1

\* s.rfind(sub): zero-based index of the last occurrence, -1 if none
RFind(s, sub) ==
    LET hits == { i \in 1..(Len(s) - Len(sub) + 1) : SubSeq(s, i, i + Len(sub) - 1) = sub }
    IN  IF hits = {} THEN -1
        ELSE (CHOOSE i \in hits : \A j \in hits : i >= j) - 1

\* s.split(c) for a one-character separator c
RECURSIVE Split(_, _)
Split(s, c) ==
    LET at == Find(s, <<c>>)
    IN  IF at = -1 THEN << s >>
        ELSE << SubSeq(s, 1, at) >> \o Split(SubSeq(s, at + 2, Len(s)), c)

-----------------------------------------------------------------------------
(* build_index_alias_map, parse_suggest_value, suggest_full_codes_for_key. *)

\* The aliases dict as a set of (key, value) pairs
AliasPairs ==
    { << <<"U+4E0A","U+8BC1">>, <<"s","h","0","0","0","0","0","1">> >>,
      << <<"U+4E0A","U+8BC1","U+6307","U+6570">>, <<"s","h","0","0","0","0","0","1">> >>,
      << <<"U+4E0A","U+8BC1","U+7EFC","U+6307">>, <<"s","h","0","0","0","0","0","1">> >>,
      << <<"U+6DF1","U+8BC1","U+6210","U+6307">>, <<"s","z","3","9","9","0","0","1">> >>,
      << <<"U+6DF1","U+6210","U+6307">>, <<"s","z","3","9","9","0","0","1">> >>,
      << <<"U+521B","U+4E1A","U+677F">>, <<"s","z","3","9","9","0","0","6">> >>,
      << <<"U+521B","U+4E1A","U+677F","U+6307">>, <<"s","z","3","9","9","0","0","6">> >>,
      << <<"U+521B","U+4E1A","U+677F","U+6307","U+6570">>, <<"s","z","3","9","9","0","0","6">> >>,
      << <<"U+79D1","U+521B","5","0">>, <<"s","h","0","0","0","6","8","8">> >>,
      << <<"U+79D1","U+521B","U+677F","5","0">>, <<"s","h","0","0","0","6","8","8">> >>,
      << <<"U+79D1","U+521B","5","0","U+6307","U+6570">>, <<"s","h","0","0","0","6","8","8">> >>,
      << <<"U+6CAA","U+6DF1","3","0","0">>, <<"s","h","0","0","0","3","0","0">> >>,
      << <<"U+6CAA","U+6DF1","U+4E09","U+767E">>, <<"s","h","0","0","0","3","0","0">> >>,
      << <<"U+4E0A","U+8BC1","5","0">>, <<"s","h","0","0","0","0","1","6">> >>,
      << <<"U+4E0A","U+8BC1","U+4E94","U+5341">>, <<"s","h","0","0","0","0","1","6">> >>,
      << <<"U+4E2D","U+8BC1","5","0","0">>, <<"s","h","0","0","0","9","0","5">> >>,
      << <<"U+4E2D","U+8BC1","1","0","0","0">>, <<"s","h","0","0","0","8","5","2">> >>,
      << <<"U+6052","U+751F","U+6307","U+6570">>, <<"h","k","H","S","I">> >>,
      << <<"U+6052","U+6307">>, <<"h","k","H","S","I">> >>,
      << <<"H","S","I">>, <<"h","k","H","S","I">> >>,
      << <<"U+6052","U+751F","U+79D1","U+6280","U+6307","U+6570">>, <<"h","k","H","S","T","E","C","H">> >>,
      << <<"U+6052","U+751F","U+79D1","U+6280">>, <<"h","k","H","S","T","E","C","H">> >>,
      << <<"H","S","T","E","C","H">>, <<"h","k","H","S","T","E","C","H">> >>,
      << <<"U+6052","U+751F","U+4E2D","U+56FD","U+4F01","U+4E1A","U+6307","U+6570">>, <<"h","k","H","S","C","E","I">> >>,
      << <<"U+56FD","U+4F01","U+6307","U+6570">>, <<"h","k","H","S","C","E","I">> >>,
      << <<"H","S","C","E","I">>, <<"h","k","H","S","C","E","I">> >>,
      << <<"U+6052","U+751F","U+9999","U+6E2F","U+4E2D","U+8D44","U+4F01","U+4E1A","U+6307","U+6570">>, <<"h","k","H","S","C","C","I">> >>,
      << <<"H","S","C","C","I">>, <<"h","k","H","S","C","C","I">> >> }

\* alias_map.get(token)
alias_get(token) ==
    IF \E p \in AliasPairs : p[1] = token
    THEN Some((CHOOSE p \in AliasPairs : p[1] = token)[2])
    ELSE Nothing

\* The entries parse_suggest_value builds from the records of the payload,
\* each entry <<name, type, code, full>>
RECURSIVE suggest_entries(_)
suggest_entries(recs) ==
    IF recs = << >> THEN << >>
    ELSE LET rec    == Head(recs)
             fields == Split(rec, ",")
         IN  IF rec = << >> \/ Len(fields) < 4
             THEN suggest_entries(Tail(recs))
             ELSE << << Strip(fields[1]), Strip(fields[2]),
                        Strip(fields[3]), Strip(fields[4]) >> >>
                  \o suggest_entries(Tail(recs))

parse_suggest_value(text) ==
    IF text = << >> THEN << >>
    ELSE LET start == Find(text, <<"\"">>)
             end   == RFind(text, <<"\"">>)
         IN  IF start = -1 \/ end = -1 \/ end <= start THEN << >>
             ELSE LET payload == SubSeq(text, start + 2, end)
                  IN  IF payload = << >> THEN << >>
                      ELSE suggest_entries(Split(payload, ";"))

\* The loop over the entries of one reply in suggest_full_codes_for_key:
\* the value of result after it, starting from acc
RECURSIVE suggest_collect(_, _)
suggest_collect(entries, acc) ==
    IF entries = << >> THEN acc
    ELSE LET e          == Head(entries)
             full_raw   == Strip(e[4])
             code_raw   == Strip(e[3])
             full_lower == Lower(full_raw)
             val        == IF full_raw # << >> THEN full_raw ELSE code_raw
             full       == IF \E p \in {SH, SZ, BJ} : StartsWith(full_lower, p)
                           THEN Some(full_lower)
                           ELSE IF val = << >> THEN Nothing
                           ELSE Some(HK \o (IF IsDigit(val) THEN Zfill(val, 5)
                                                             ELSE Upper(val)))
         IN  IF /\ full # Nothing
                /\ full[1] \notin Range(acc)
                /\ \E p \in {SH, SZ, BJ, HK} : StartsWith(full[1], p)
             THEN suggest_collect(Tail(entries), Append(acc, full[1]))
             ELSE suggest_collect(Tail(entries), acc)

\* result after the reply text of one url
suggest_candidates(text) == suggest_collect(parse_suggest_value(text), << >>)

SuggestUrls == 3   \* urls: type=11, type=31, no type

\* A reply of the suggest endpoint with the given payload
SuggestHead == <<"v","a","r"," ","s","u","g","g","e","s","t","v","a","l","u","e","=","\"">>
SuggestReply(payload) == SuggestHead \o payload \o <<"\"", ";">>

SuggestPayloads ==
    { << >>,
      <<"n",",","3","1",",","7","0","0",",">>,
      <<"n",",","3","1",",","h","s","i",","," ","h","s","i">>,
      <<"n",",","1","1",",",",","s","h">>,
      <<"n",",","1","1",",",",">>,
      <<"a",",","b",",","c",";",";","n",",","1","1",",","1",",","S","H","6","0","0","5","1","9",",","x",";","n",",","1","1",",","2",",","s","z","0","0","0","0","0","1">> }

SuggestTexts ==
    { << >>, <<"e","r","r","o","r">>, <<"\"">> } \cup { SuggestReply(p) : p \in SuggestPayloads }

-----------------------------------------------------------------------------
(* SpecResolve: resolve_inputs_to_prefixed_codes over a batch of tokens.   *)
(* A step handles one token up to its first suggest request, or is one     *)
(* suggest request and everything done with its outcome before the next.   *)

ResolveTokens ==
    { <<"6","0","0","5","1","9">>, <<"s","h","6","0","0","5","1","9">>,
      <<"H","S","I">>, <<"U+6052","U+6307">>,
      <<"x">>, <<" ">>, <<"s","h">> }

\* What a suggest request raises; the handler never looks at it
SuggestErrors == {"timeout"}

ResolveInputs == SeqsUpTo(ResolveTokens, MaxInputs)

\* The dedup test left out: every code counts as new
IsNewAlways(full, sn) == TRUE

\* full not in seen
IsNew(full, sn) == full \notin sn

\* "except Exception: raise" around the suggest request
SuggestExceptRaises == "raise"

\* except Exception: continue
SuggestExcept == "continue"

\* The token of the loop iteration at pos
Token == Strip(inputs[pos])

\* End of the loop body for the token at pos: code, if any, is the code the
\* token resolved to by the given step.
FinishToken(step, code) ==
    /\ trace' = Append(trace, [step |-> step, code |-> code,
                               all_failed |-> (step = "dropped" /\ ~replied')])
    /\ IF code # Nothing /\ IsNew(code[1], seen)
       THEN /\ seen' = seen \cup {code[1]}
            /\ resolved' = Append(resolved, code[1])
       ELSE UNCHANGED <<seen, resolved>>
    /\ pos' = pos + 1
    /\ pc' = "resolve"

\* The loop over urls after the body for url_idx ended: break when result
\* is not empty, else the next url, else return the empty result.
SuggestAdvance(result) ==
    IF result # << >>
    THEN /\ FinishToken("suggest", Some(result[1]))
         /\ UNCHANGED <<url_idx, attempt, last_exception>>
    ELSE IF url_idx < SuggestUrls
    THEN /\ url_idx' = url_idx + 1
         /\ attempt' = 0
         /\ last_exception' = None
         /\ UNCHANGED <<pc, pos, resolved, seen, trace>>
    ELSE /\ FinishToken("dropped", Nothing)
         /\ UNCHANGED <<url_idx, attempt, last_exception>>

InitResolve ==
    /\ pc = "resolve"
    /\ inputs \in ResolveInputs
    /\ pos = 1
    /\ resolved = << >> /\ seen = {}
    /\ url_idx = 0 /\ replied = FALSE /\ trace = << >>
    /\ max_retries = DefaultMaxRetries /\ attempt = 0 /\ last_exception = None
    /\ slept = << >>
    /\ FetchIdle /\ NormIdle /\ ParseIdle /\ RestIdle

\* if not token: continue
ResolveBlank ==
    /\ pc = "resolve" /\ pos <= Len(inputs)
    /\ Token = << >>
    /\ replied' = FALSE
    /\ FinishToken("blank", Nothing)
    /\ UNCHANGED <<inputs, url_idx, httpVars, fetchVars, normVars, parseVars, restVars>>

\* 1) direct = normalize_codes([token]) is not empty
ResolveDirect ==
    /\ pc = "resolve" /\ pos <= Len(inputs)
    /\ Token # << >>
    /\ LET direct == normalize_codes(<<Token>>)
       IN  /\ direct # << >>
           /\ replied' = FALSE
           /\ FinishToken("direct", Some(direct[1]))
    /\ UNCHANGED <<inputs, url_idx, httpVars, fetchVars, normVars, parseVars, restVars>>

\* 2) if alias_code and alias_code not in seen
ResolveAlias ==
    /\ pc = "resolve" /\ pos <= Len(inputs)
    /\ Token # << >>
    /\ normalize_codes(<<Token>>) = << >>
    /\ LET alias_code == alias_get(Token)
       IN  /\ alias_code # Nothing
           /\ IsNew(alias_code[1], seen)
           /\ replied' = FALSE
           /\ FinishToken("alias", alias_code)
    /\ UNCHANGED <<inputs, url_idx, httpVars, fetchVars, normVars, parseVars, restVars>>

\* 3) neither branch above was taken: suggest_full_codes_for_key(token)
\* builds its urls and enters http_get_text for the first one.
ResolveCallsSuggest ==
    /\ pc = "resolve" /\ pos <= Len(inputs)
    /\ Token # << >>
    /\ normalize_codes(<<Token>>) = << >>
    /\ LET alias_code == alias_get(Token)
       IN  ~(alias_code # Nothing /\ IsNew(alias_code[1], seen))
    /\ pc' = "suggest"
    /\ url_idx' = 1
    /\ attempt' = 0
    /\ last_exception' = None
    /\ NoSleep
    /\ replied' = FALSE
    /\ UNCHANGED <<max_retries, inputs, pos, resolved, seen, trace, fetchVars,
                   normVars, parseVars, restVars>>

\* The suggest request returns a text.
SuggestSucceeds(text) ==
    /\ pc = "suggest"
    /\ replied' = TRUE
    /\ SuggestAdvance(suggest_candidates(text))
    /\ NoSleep
    /\ UNCHANGED <<max_retries, inputs, fetchVars, normVars, parseVars, restVars>>

\* The suggest request raises and the retry loop has a further iteration.
SuggestFailsRetry(e) ==
    /\ pc = "suggest"
    /\ attempt + 1 < RangeEnd(max_retries)
    /\ last_exception' = RecordException(last_exception, e)
    /\ Sleep(attempt)
    /\ attempt' = attempt + 1
    /\ UNCHANGED <<pc, max_retries, inputs, pos, resolved, seen, url_idx, replied,
                   trace, fetchVars, normVars, parseVars, restVars>>

\* The suggest request raises on the last iteration: http_get_text raises
\* and suggest_full_codes_for_key handles the exception.
SuggestFailsFinal(e) ==
    /\ pc = "suggest"
    /\ ~(attempt + 1 < RangeEnd(max_retries))
    /\ replied' = replied
    /\ NoSleep
    /\ IF SuggestExcept = "continue"
       THEN SuggestAdvance(<< >>)
       ELSE /\ pc' = "raised"
            /\ UNCHANGED <<pos, resolved, seen, url_idx, trace, attempt, last_exception>>
    /\ UNCHANGED <<max_retries, inputs, fetchVars, normVars, parseVars, restVars>>

\* return resolved
ResolveReturns ==
    /\ pc = "resolve" /\ pos > Len(inputs)
    /\ pc' = "done"
    /\ UNCHANGED <<httpVars, fetchVars, normVars, resolveVars, parseVars, restVars>>

NextResolve ==
    \/ ResolveBlank
    \/ ResolveDirect
    \/ ResolveAlias
    \/ ResolveCallsSuggest
    \/ \E text \in SuggestTexts : SuggestSucceeds(text)
    \/ \E e \in SuggestErrors : SuggestFailsRetry(e)
    \/ \E e \in SuggestErrors : SuggestFailsFinal(e)
    \/ ResolveReturns

SpecResolve == InitResolve /\ [][NextResolve]_vars

\* The codes the handled tokens resolved to, in token order
RECURSIVE CodesOf(_)
CodesOf(tr) ==
    IF tr = << >> THEN << >>
    ELSE Head(tr).code \o CodesOf(Tail(tr))

\* s without every element that occurred earlier in s
RECURSIVE FirstOccurrences(_)
FirstOccurrences(s) ==
    IF s = << >> THEN << >>
    ELSE LET init == SubSeq(s, 1, Len(s) - 1)
             rest == FirstOccurrences(init)
         IN  IF s[Len(s)] \in Range(init) THEN rest ELSE Append(rest, s[Len(s)])

\* C4: the resolved list holds no code twice, and holds the codes in the
\* order of the first token that resolved to each, whichever step resolved it.
ResolvedIsFirstSeenOrder ==
    /\ \A i, j \in DOMAIN resolved : i # j => resolved[i] # resolved[j]
    /\ resolved = FirstOccurrences(CodesOf(trace))

\* ["600519", "600519", "sh600519"] has been resolved to ["sh600519"].
ResolvedIsFirstSeenOrderWitness ==
    /\ pc = "done"
    /\ inputs = << <<"6","0","0","5","1","9">>, <<"6","0","0","5","1","9">>,
                   <<"s","h","6","0","0","5","1","9">> >>
    /\ resolved = << <<"s","h","6","0","0","5","1","9">> >>

\* C7: a suggest request is issued for a token only when neither direct
\* normalization nor the alias map resolves that token.
SuggestOnlyAfterLocalStepsFail ==
    pc = "suggest" =>
        /\ normalize_codes(<<Token>>) = << >>
        /\ alias_get(Token) = Nothing

\* The step that ends the handling of the current token as unresolved
DropsToken ==
    /\ Len(trace') = Len(trace) + 1
    /\ trace'[Len(trace')].step = "dropped"

\* C8: a token that fails all three steps raises nothing and leaves resolved
\* and seen as they were, and the loop goes on with the next token.
DroppedTokenIsOmitted ==
    /\ [][DropsToken => /\ resolved' = resolved
                        /\ seen' = seen
                        /\ pos' = pos + 1
                        /\ pc' = "resolve"]_vars
    /\ [](pc # "raised")

\* "x" was dropped after every suggest request for it failed, and the
\* token after it was resolved.
DroppedTokenIsOmittedWitness ==
    /\ pc = "done"
    /\ inputs = << <<"x">>, <<"6","0","0","5","1","9">> >>
    /\ trace[1].step = "dropped" /\ trace[1].all_failed
    /\ resolved = << <<"s","h","6","0","0","5","1","9">> >>

\* C9: every resolved code is one of sh, sz, bj, hk followed by a non-empty
\* code string, which for hk, when all digits, has at least 5 characters.
ResolvedCodesWellFormed ==
    \A i \in DOMAIN resolved :
        LET c == resolved[i]
        IN  /\ Upto(c, 2) \in {SH, SZ, BJ, HK}
            /\ Len(c) > 2
            /\ (Upto(c, 2) = HK /\ IsDigit(From(c, 2))) => Len(From(c, 2)) >= 5

-----------------------------------------------------------------------------
(* _safe_float, _safe_int and parse_sina_line.                             *)

\* The number a run of decimal digits denotes
RECURSIVE DecimalValue(_)
DecimalValue(t) ==
    IF t = << >> THEN 0
    ELSE 10 * DecimalValue(SubSeq(t, 1, Len(t) - 1))
         + (CHOOSE d \in 0..9 : DigitChars[d + 1] = t[Len(t)])

\* "return -1.0" written for "return 0.0"
_safe_float_minus_one(value) ==
    LET t == Strip(value)
    IN  IF IsDigit(t) THEN FromInt(DecimalValue(t)) ELSE FromInt(-1)

\* float(value), or 0.0 when float raises.  The field texts of this model
\* are runs of digits, which float reads as that number, and texts float
\* rejects (empty, or holding a letter other than in inf, nan, e).
_safe_float(value) ==
    LET t == Strip(value)
    IN  IF IsDigit(t) THEN FromInt(DecimalValue(t)) ELSE FZero

\* int(float(value)), or 0 when either raises
_safe_int(value) ==
    LET t == Strip(value)
    IN  IF IsDigit(t) THEN DecimalValue(t) ELSE 0

Marker == <<"h","q","_","s","t","r","_">>
DoubleQuote == <<"\"">>

HkMinFields     == 19   \* if len(fields) < 19
AShareMinFields == 32   \* if len(fields) < 32

\* The hk test written "len(fields) < 18"
HkFieldsTooFewByOne(fields) ==
    Len(fields) < HkMinFields - 1 \/ (Len(fields) = 1 /\ fields[1] = << >>)

\* len(fields) < 19 or (len(fields) == 1 and not fields[0])
HkFieldsTooFew(fields) ==
    Len(fields) < HkMinFields \/ (Len(fields) = 1 /\ fields[1] = << >>)

\* len(fields) < 32 or (len(fields) == 1 and not fields[0])
AShareFieldsTooFew(fields) ==
    Len(fields) < AShareMinFields \/ (Len(fields) = 1 /\ fields[1] = << >>)

\* s.replace(" ", "")
RECURSIVE RemoveSpaces(_)
RemoveSpaces(s) ==
    IF s = << >> THEN << >>
    ELSE IF Head(s) = " " THEN RemoveSpaces(Tail(s))
    ELSE << Head(s) >> \o RemoveSpaces(Tail(s))

\* fields[i] for a zero-based i the caller has checked to exist
Field(fields, i) == fields[i + 1]

\* The five (volume, price) pairs read from offset first on
Levels(fields, first) ==
    [i \in 1..5 |-> << _safe_int(Field(fields, first + (i - 1) * 2)),
                       _safe_float(Field(fields, first + 1 + (i - 1) * 2)) >>]

HkQuote(exchange, code_digits, fields) ==
    [exchange |-> exchange, code |-> code_digits,
     name |-> Field(fields, 1),
     current |-> _safe_float(Field(fields, 2)),
     prev_close |-> _safe_float(Field(fields, 3)),
     open |-> _safe_float(Field(fields, 6)),
     high |-> _safe_float(Field(fields, 4)),
     low |-> _safe_float(Field(fields, 5)),
     bid |-> _safe_float(Field(fields, 9)),
     ask |-> _safe_float(Field(fields, 10)),
     volume_shares |-> _safe_int(Field(fields, 12)),
     amount_yuan |-> _safe_float(Field(fields, 11)),
     buys |-> << >>, sells |-> << >>,
     date |-> IF Len(fields) > 17 THEN Field(fields, 17) ELSE << >>,
     time |-> IF Len(fields) > 18 THEN Field(fields, 18) ELSE << >>]

AShareQuote(exchange, code_digits, fields) ==
    [exchange |-> exchange, code |-> code_digits,
     name |-> Field(fields, 0),
     current |-> _safe_float(Field(fields, 3)),
     prev_close |-> _safe_float(Field(fields, 2)),
     open |-> _safe_float(Field(fields, 1)),
     high |-> _safe_float(Field(fields, 4)),
     low |-> _safe_float(Field(fields, 5)),
     bid |-> _safe_float(Field(fields, 6)),
     ask |-> _safe_float(Field(fields, 7)),
     volume_shares |-> _safe_int(Field(fields, 8)),
     amount_yuan |-> _safe_float(Field(fields, 9)),
     buys |-> Levels(fields, 10), sells |-> Levels(fields, 20),
     date |-> IF Len(fields) > 30 THEN Field(fields, 30) ELSE << >>,
     time |-> IF Len(fields) > 31 THEN Field(fields, 31) ELSE << >>]

parse_sina_line(ln) ==
    IF ln = << >> \/ Find(ln, Marker) = -1 THEN Nothing
    ELSE IF Find(ln, <<"=">>) = -1 THEN Nothing
    ELSE
        LET eq       == Find(ln, <<"=">>)
            head     == SubSeq(ln, 1, eq)
            payload  == SubSeq(ln, eq + 2, Len(ln))
            code_pos == RFind(head, Marker)
        IN  IF code_pos = -1 THEN Nothing
            ELSE IF ~StartsWith(Strip(payload), DoubleQuote) THEN Nothing
            ELSE
                LET var_name == RemoveSpaces(Strip(From(head, code_pos + Len(Marker))))
                    stripped == StripChars(StripChars(Strip(payload), {"\r", "\n"}), {";"})
                    content  == IF StartsWith(stripped, DoubleQuote) /\ EndsWith(stripped, DoubleQuote)
                                THEN SubSeq(stripped, 2, Len(stripped) - 1)
                                ELSE stripped
                    fields   == IF content = << >> THEN << >> ELSE Split(content, ",")
                    exchange    == Upto(var_name, 2)
                    code_digits == From(var_name, 2)
                IN  IF exchange = HK
                    THEN IF HkFieldsTooFew(fields) THEN Nothing
                         ELSE Some(HkQuote(exchange, code_digits, fields))
                    ELSE IF AShareFieldsTooFew(fields) THEN Nothing
                         ELSE Some(AShareQuote(exchange, code_digits, fields))

-----------------------------------------------------------------------------
(* SpecParse: parse_sina_line applied to one line of a quote reply.        *)

MaxFields == 33   \* most fields in the payload of a line

\* The decimal digits of a natural number
RECURSIVE Decimal(_)
Decimal(n) ==
    IF n < 10 THEN << DigitChars[n + 1] >>
    ELSE Decimal(n \div 10) \o << DigitChars[(n % 10) + 1] >>

\* n fields joined by ","; field i (zero-based) is the digits of i + 1,
\* except field bad, which is not a number
RECURSIVE JoinFields(_, _)
JoinFields(n, bad) ==
    IF n = 0 THEN << >>
    ELSE LET last == IF n - 1 = bad THEN <<"x">> ELSE Decimal(n)
         IN  IF n = 1 THEN last ELSE JoinFields(n - 1, bad) \o <<",">> \o last

LineHeads ==
    { <<"v","a","r"," ","h","q","_","s","t","r","_","h","k","0","0","7","0","0">>,
      <<"v","a","r"," ","h","q","_","s","t","r","_","s","h","6","0","0","0","0","0">>,
      <<"v","a","r"," ","h","q","_","s","t","r","_","s","z","0","0","0","0","0","1"," ">>,
      <<"v","a","r"," ","h","q","_","s","t","r","_"," ","h"," ","k","0","0","0","0","5">>,
      <<"v","a","r"," ","h","q","_","s","t","r","_","H","K","0","0","7","0","0">>,
      <<"v","a","r"," ","h","q","_","s","t","r","_">>,
      <<"v","a","r"," ","x">> }

\* What stands around the fields: ( "...";  ) or ( "...  ) or (  "..." \r\n )
\* or no quote at all
Wrap(body, w) ==
    CASE w = 1 -> DoubleQuote \o body \o DoubleQuote \o <<";">>
      [] w = 2 -> DoubleQuote \o body
      [] w = 3 -> <<" ">> \o DoubleQuote \o body \o DoubleQuote \o <<";", "\r", "\n">>
      [] w = 4 -> body

BadFields == {-1, 3}

\* The zero-based positions from which a number is read
AShareNumbers == 1..29
HkNumbers     == {2, 3, 4, 5, 6, 9, 10, 11, 12}

\* Lines of a least and of a greater number of fields, one of them not a number
BadNumberLines ==
    { h \o <<"=">> \o Wrap(JoinFields(n, b), 1) :
          h \in LineHeads, n \in {HkMinFields, AShareMinFields, MaxFields},
          b \in AShareNumbers }

ParseLines ==
    { << >>, <<"v","a","r"," ","h","q","_","s","t","r","_","s","h","6","0","0","0","0","0">> } \cup
    { h \o <<"=">> \o Wrap(JoinFields(n, b), w) :
          h \in LineHeads, n \in 0..MaxFields, b \in BadFields, w \in 1..4 } \cup
    BadNumberLines

InitParse ==
    /\ pc = "parse"
    /\ line \in ParseLines
    /\ parsed = Nothing
    /\ HttpIdle /\ FetchIdle /\ NormIdle /\ ResolveIdle /\ RestIdle

ParseLine ==
    /\ pc = "parse"
    /\ parsed' = parse_sina_line(line)
    /\ pc' = "parsed"
    /\ UNCHANGED <<line, httpVars, fetchVars, normVars, resolveVars, restVars>>

NextParse == ParseLine

SpecParse == InitParse /\ [][NextParse]_vars

\* The text after the first "=" of a line that has one
PayloadOf(ln) == SubSeq(ln, Find(ln, <<"=">>) + 2, Len(ln))

\* How many comma-separated fields a payload has
CommaFields(payload) == 1 + Cardinality({ i \in DOMAIN payload : payload[i] = "," })

\* The code of a line: what follows the last marker before the "=", less blanks
CodeOf(ln) ==
    LET head == SubSeq(ln, 1, Find(ln, <<"=">>))
    IN  IF RFind(head, Marker) = -1 THEN << >>
        ELSE RemoveSpaces(From(head, RFind(head, Marker) + Len(Marker)))

\* C10: no Quote for an hk line with fewer than 19 fields, for a line of
\* another market with fewer than 32 fields, or for an empty quoted payload.
ShortLineYieldsNoQuote ==
    (pc = "parsed" /\ Find(line, <<"=">>) # -1) =>
        LET payload == PayloadOf(line)
            n       == CommaFields(payload)
            hk      == StartsWith(CodeOf(line), HK)
            empty   == StripChars(payload, Whitespace \cup {";"}) = <<"\"", "\"">>
        IN  ((hk /\ n < 19) \/ (~hk /\ n < 32) \/ empty) => parsed = Nothing

\* An hk line of 18 fields has been parsed.
ShortLineYieldsNoQuoteWitness ==
    /\ pc = "parsed"
    /\ line = <<"v","a","r"," ","h","q","_","s","t","r","_","h","k","0","0","7","0","0","=">> \o Wrap(JoinFields(18, -1), 1)
    /\ parsed = Nothing

\* The line with the field that is no number replaced by the number 7
Repaired(ln) ==
    [i \in DOMAIN ln |-> IF i > Find(ln, <<"=">>) /\ ln[i] = "x" THEN "7" ELSE ln[i]]

\* The zero-based positions of the fields of a line that are the text "x"
BadPositions(ln) ==
    LET fields == Split(PayloadOf(ln), ",")
    IN  { i - 1 : i \in { j \in DOMAIN fields : fields[j] = <<"x">> } }

FloatKeys == {"current", "prev_close", "open", "high", "low", "bid", "ask", "amount_yuan"}
OtherKeys == {"exchange", "code", "name", "date", "time", "volume_shares"}

\* The keys under which two quotes differ, and the (level, part) places at
\* which two sides of an order book differ
DifferingKeys(q, g) == { k \in FloatKeys \cup OtherKeys : q[k] # g[k] }

DifferingLevels(side, other) ==
    { t \in (DOMAIN other) \X (1..2) : side[t[1]][t[2]] # other[t[1]][t[2]] }

\* The one number in which quote q differs from quote g is zero in q
OnlyOneNumberZeroed(q, g) ==
    LET keys == DifferingKeys(q, g)
        bids == DifferingLevels(q.buys, g.buys)
        asks == DifferingLevels(q.sells, g.sells)
    IN  /\ Len(q.buys) = Len(g.buys) /\ Len(q.sells) = Len(g.sells)
        /\ Cardinality(keys) + Cardinality(bids) + Cardinality(asks) = 1
        /\ \A k \in keys :
               \/ k \in FloatKeys /\ q[k] = FZero
               \/ k = "volume_shares" /\ q[k] = 0
        /\ \A t \in bids : q.buys[t[1]][t[2]] = IF t[2] = 1 THEN 0 ELSE FZero
        /\ \A t \in asks : q.sells[t[1]][t[2]] = IF t[2] = 1 THEN 0 ELSE FZero

\* C18: when one numeric field of a line with enough fields is no number,
\* the line still gives a Quote; the value read from that field is zero and
\* every other value is what the line with a number in that field gives.
BadNumberReadsAsZero ==
    (pc = "parsed" /\ Find(line, <<"=">>) # -1 /\ Cardinality(BadPositions(line)) = 1) =>
        LET b    == CHOOSE i \in BadPositions(line) : TRUE
            good == parse_sina_line(Repaired(line))
        IN  (good # Nothing /\ b \in (IF good[1].exchange = HK THEN HkNumbers ELSE AShareNumbers))
                => /\ parsed # Nothing
                   /\ OnlyOneNumberZeroed(parsed[1], good[1])

\* An A-share line of 32 fields whose price field is "x" has been parsed:
\* the price is zero and the open, the volume and the first bid are read.
BadNumberReadsAsZeroWitness ==
    /\ pc = "parsed"
    /\ line = <<"v","a","r"," ","h","q","_","s","t","r","_","s","h","6","0","0","0","0","0","=">>
                  \o Wrap(JoinFields(AShareMinFields, 3), 1)
    /\ parsed # Nothing
    /\ parsed[1].current = FZero
    /\ parsed[1].open = FromInt(2)
    /\ parsed[1].volume_shares = 9
    /\ parsed[1].buys[1] = <<11, FromInt(12)>>

-----------------------------------------------------------------------------
(* The history fetch: _http_get_json and the endpoint loop of              *)
(* fetch_daily_klines_from_eastmoney and fetch_minute_klines_from_eastmoney.*)
(* A reply body is described by the JSON value it denotes, or is a text    *)
(* json.loads rejects.                                                     *)

MaxRecords == 2   \* most records in the klines list of a reply

HistoryMaxRetries == 3    \* _http_get_json passes max_retries=3
HistoryEndpoints  == 2    \* push2his and push2
KlineMinFields    == 11   \* if len(parts) < 11: continue
DailyKlt          == 101  \* klt=101 in the query of the daily fetch

JInvalid == [t |-> "invalid"]
JNull    == [t |-> "null"]
JNum(n)  == [t |-> "num", v |-> n]
JStr(s)  == [t |-> "str", v |-> s]
JArr(s)  == [t |-> "arr", v |-> s]
JObj(kv) == [t |-> "obj", v |-> kv]   \* kv: the (key, value) pairs in order

\* bool(j) of a decoded JSON value
Truthy(j) ==
    CASE j.t = "null" -> FALSE
      [] j.t = "num"  -> j.v # 0
      [] OTHER        -> j.v # << >>

\* j.get(key) of a dict j
dict_get(j, key) ==
    IF \E i \in DOMAIN j.v : j.v[i][1] = key
    THEN j.v[CHOOSE i \in DOMAIN j.v : j.v[i][1] = key][2]
    ELSE JNull

\* json.loads(text), or {} when it raises
_http_get_json(text) == IF text.t = "invalid" THEN JObj(<< >>) ELSE text

DataKey   == <<"d","a","t","a">>
KlinesKey == <<"k","l","i","n","e","s">>

\* try: klines = ((data or {}).get("data") or {}).get("klines") or []
\* except Exception: klines = []
\* (.get of a value that is not a dict raises AttributeError)
klines_of(data) ==
    LET outer == IF Truthy(data) THEN data ELSE JObj(<< >>)
    IN  IF outer.t # "obj" THEN JArr(<< >>)
        ELSE LET member == dict_get(outer, DataKey)
                 inner  == IF Truthy(member) THEN member ELSE JObj(<< >>)
             IN  IF inner.t # "obj" THEN JArr(<< >>)
                 ELSE LET k == dict_get(inner, KlinesKey)
                      IN  IF Truthy(k) THEN k ELSE JArr(<< >>)

\* "for rec in klines" raises TypeError unless klines can be iterated
Iterable(j) == j.t \in {"arr", "obj", "str"}

\* What "for rec in klines" binds rec to: the elements of a list, the keys
\* of a dict, the characters of a str
Items(j) ==
    CASE j.t = "arr" -> j.v
      [] j.t = "obj" -> [i \in DOMAIN j.v |-> JStr(j.v[i][1])]
      [] j.t = "str" -> [i \in DOMAIN j.v |-> JStr(<< j.v[i] >>)]

\* str(rec) for the records of this model: strings, naturals and null
PyStr(rec) ==
    CASE rec.t = "str"  -> rec.v
      [] rec.t = "num"  -> Decimal(rec.v)
      [] rec.t = "null" -> <<"N","o","n","e">>

\* The numbers of the dict appended for one record
BarNumbers(parts) ==
    [open          |-> _safe_float(Field(parts, 1)),
     close         |-> _safe_float(Field(parts, 2)),
     high          |-> _safe_float(Field(parts, 3)),
     low           |-> _safe_float(Field(parts, 4)),
     volume        |-> _safe_float(Field(parts, 5)),
     amount        |-> _safe_float(Field(parts, 6)),
     amplitude_pct |-> _safe_float(Field(parts, 7)),
     change_pct    |-> _safe_float(Field(parts, 8)),
     change_amt    |-> _safe_float(Field(parts, 9)),
     turnover_pct  |-> _safe_float(Field(parts, 10))]

\* The dict appended for one record; parts[0] is stored under "date" by the
\* daily fetch and under "datetime" by the minute fetch
Bar(parts, k) ==
    (IF k = DailyKlt THEN [date |-> Field(parts, 0)]
                     ELSE [datetime |-> Field(parts, 0)]) @@ BarNumbers(parts)

\* "break" written for "continue": the records after a short one are dropped
AfterShortRecordBreak(rest) == << >>

\* if len(parts) < 11: continue -- the loop goes on with the records after it
AfterShortRecord(rest) == rest

\* for rec in klines: ... result.append({...})
RECURSIVE decode_klines(_, _, _)
decode_klines(recs, result, k) ==
    IF recs = << >> THEN result
    ELSE LET parts == Split(PyStr(Head(recs)), ",")
         IN  IF Len(parts) < KlineMinFields
             THEN decode_klines(AfterShortRecord(Tail(recs)), result, k)
             ELSE decode_klines(Tail(recs), Append(result, Bar(parts, k)), k)

-----------------------------------------------------------------------------
(* SpecHistory: one call of the history fetch.                             *)

\* A record of n fields (n >= 1) whose first field starts with the digits of day
KlineRecord(day, n) == JStr(Decimal(day) \o JoinFields(n, -1))

KlineRecords ==
    { KlineRecord(day, n) : day \in 1..2, n \in {1, KlineMinFields - 1, KlineMinFields, KlineMinFields + 1} }
    \cup { JStr(<< >>), JNum(5), JNull }

DataDoc(d)    == JObj(<< <<DataKey, d>> >>)
KlinesDoc(k)  == DataDoc(JObj(<< <<KlinesKey, k>> >>))

\* Replies whose data.klines is a list of records
ListDocs == { KlinesDoc(JArr(recs)) : recs \in SeqsUpTo(KlineRecords, MaxRecords) }

\* Replies of every other kind
OddDocs ==
    { JInvalid, JNull, JNum(0), JNum(7), JStr(<<"o","k">>), JArr(<< JNum(1) >>),
      JObj(<< >>), JObj(<< <<<<"r","c">>, JNum(0)>> >>),
      DataDoc(JNull), DataDoc(JNum(5)), DataDoc(JStr(<<"x">>)),
      DataDoc(JArr(<< KlineRecord(1, KlineMinFields) >>)), DataDoc(JObj(<< >>)),
      KlinesDoc(JNull), KlinesDoc(JNum(5)), KlinesDoc(JStr(<<"a",",","b">>)),
      KlinesDoc(JObj(<< <<KlineRecord(1, KlineMinFields).v, JNum(0)>> >>)),
      KlinesDoc(JObj(<< <<<<"a">>, KlineRecord(1, KlineMinFields)>> >>)) }

HistoryDocs == ListDocs \cup OddDocs

\* What a history request can raise
HistoryErrors == {"timeout"}

\* The endpoint loop after the body for endpoint idx raised: the next
\* endpoint, or after the last one the "return []" below the loop.
\* "raise last_exception" written for "return []" after the endpoint loop
HistoryLoopAdvanceRaises ==
    IF idx < endpoints - 1
    THEN /\ idx' = idx + 1
         /\ attempt' = 0
         /\ last_exception' = None
         /\ fetch_result' = fetch_result
         /\ pc' = "request"
    ELSE /\ UNCHANGED <<idx, attempt, last_exception>>
         /\ fetch_result' = [kind |-> "error", error |-> fetch_exception']
         /\ pc' = "done"

HistoryLoopAdvance ==
    IF idx < endpoints - 1
    THEN /\ idx' = idx + 1
         /\ attempt' = 0
         /\ last_exception' = None
         /\ fetch_result' = fetch_result
         /\ pc' = "request"
    ELSE /\ UNCHANGED <<idx, attempt, last_exception>>
         /\ fetch_result' = [kind |-> "bars", bars |-> << >>]
         /\ pc' = "done"

InitHistory ==
    /\ pc = "request"
    /\ klt \in {DailyKlt, 60}
    /\ endpoints = HistoryEndpoints
    /\ max_retries = HistoryMaxRetries
    /\ idx = 0 /\ attempt = 0
    /\ last_exception = None /\ fetch_exception = None
    /\ slept = << >>
    /\ fetch_result = [kind |-> "none"]
    /\ requests = << >>
    /\ NormIdle /\ ResolveIdle /\ ParseIdle /\ CalcIdle /\ QueryIdle

\* The request returns a reply: _http_get_json decodes it, the records of
\* its klines are decoded and returned; a klines that cannot be iterated
\* raises into the handler of the endpoint loop.
HistorySucceeds(doc) ==
    /\ pc = "request"
    /\ requests' = Append(requests, [endpoint |-> idx, attempt |-> attempt,
                                      ok |-> TRUE, reply |-> doc])
    /\ LET klines == klines_of(_http_get_json(doc))
       IN  IF Iterable(klines)
           THEN /\ fetch_result' = [kind |-> "bars",
                                    bars |-> decode_klines(Items(klines), << >>, klt)]
                /\ pc' = "done"
                /\ UNCHANGED <<idx, attempt, last_exception, fetch_exception>>
           ELSE /\ fetch_exception' = "TypeError"
                /\ HistoryLoopAdvance
    /\ NoSleep
    /\ UNCHANGED <<max_retries, endpoints, normVars, resolveVars, parseVars, restVars>>

\* The request raises on the last iteration of the retry loop:
\* http_get_text raises, the endpoint loop records it and goes on.
HistoryFailsFinal(e) ==
    /\ pc = "request"
    /\ ~(attempt + 1 < RangeEnd(max_retries))
    /\ requests' = Append(requests, [endpoint |-> idx, attempt |-> attempt,
                                      ok |-> FALSE, reply |-> [t |-> e]])
    /\ fetch_exception' = RecordException(last_exception, e)
    /\ HistoryLoopAdvance
    /\ NoSleep
    /\ UNCHANGED <<max_retries, endpoints, normVars, resolveVars, parseVars, restVars>>

\* The request raises and the retry loop has a further iteration.
HistoryFailsRetry(e) ==
    /\ pc = "request"
    /\ attempt + 1 < RangeEnd(max_retries)
    /\ requests' = Append(requests, [endpoint |-> idx, attempt |-> attempt,
                                      ok |-> FALSE, reply |-> [t |-> e]])
    /\ last_exception' = RecordException(last_exception, e)
    /\ Sleep(attempt)
    /\ attempt' = attempt + 1
    /\ UNCHANGED <<pc, max_retries, endpoints, idx, fetch_exception, fetch_result,
                   normVars, resolveVars, parseVars, restVars>>

NextHistory ==
    \/ \E doc \in HistoryDocs : HistorySucceeds(doc)
    \/ \E e \in HistoryErrors : HistoryFailsRetry(e)
    \/ \E e \in HistoryErrors : HistoryFailsFinal(e)

SpecHistory == InitHistory /\ [][NextHistory]_vars

\* The reply the fetch returned on: the last request of the log
LastReply == requests[Len(requests)].reply

\* data.klines of a reply is a list whose records are all strings
IsListOfStrings(doc) ==
    /\ doc.t = "obj" /\ dict_get(doc, DataKey).t = "obj"
    /\ dict_get(dict_get(doc, DataKey), KlinesKey).t = "arr"
    /\ \A r \in Range(dict_get(dict_get(doc, DataKey), KlinesKey).v) : r.t = "str"

\* The record texts of such a reply
RecordTexts(doc) ==
    LET recs == dict_get(dict_get(doc, DataKey), KlinesKey).v
    IN  [i \in DOMAIN recs |-> recs[i].v]

LongEnough(text) == CommaFields(text) >= 11

\* C11: the bars returned for a list of record texts are the bars of the
\* records with at least 11 comma-separated fields, one each, in the order
\* of the list; the records with fewer are left out and nothing else is.
ShortRecordsSkippedOthersKept ==
    (pc = "done" /\ requests[Len(requests)].ok /\ IsListOfStrings(LastReply)) =>
        LET kept == SelectSeq(RecordTexts(LastReply), LongEnough)
            got  == fetch_result.bars
        IN  /\ Len(got) = Len(kept)
            /\ \A i \in DOMAIN kept : got[i] = Bar(Split(kept[i], ","), klt)

\* A reply with a record of 10 fields followed by one of 11 fields has been
\* decoded into a single bar, the bar of the second record.
ShortRecordsSkippedOthersKeptWitness ==
    /\ pc = "done" /\ klt = DailyKlt
    /\ requests[Len(requests)].ok
    /\ LastReply = KlinesDoc(JArr(<< KlineRecord(1, 10), KlineRecord(2, 11) >>))
    /\ Len(fetch_result.bars) = 1
    /\ fetch_result.bars[1].date = <<"2","1">>
    /\ fetch_result.bars[1].close = FromInt(3)

\* data.klines of a reply is a list
WellShaped(doc) ==
    /\ doc.t = "obj" /\ dict_get(doc, DataKey).t = "obj"
    /\ dict_get(dict_get(doc, DataKey), KlinesKey).t = "arr"

\* C12: once a request has returned a reply that is not JSON, or has no
\* data or no data.klines, or whose data is not an object or whose klines
\* is not a list, the fetch returns no bars.  (That it raises nothing is
\* part of the model: "done" is reached with a list of bars only.)
BadDocumentYieldsNoBars ==
    (pc = "done" /\ \E k \in DOMAIN requests :
                        requests[k].ok /\ ~WellShaped(requests[k].reply)) =>
        fetch_result = [kind |-> "bars", bars |-> << >>]

-----------------------------------------------------------------------------
(* _simple_moving_average and _ema.                                        *)

\* The accumulators of a loop are evaluated at each iteration
Evaluated(x) == x = x

\* "if i > window" written for "if i >= window"
LeavesWindowLate(i, w) == i > w

\* if i >= window: cumsum -= values[i - window]
LeavesWindow(i, w) == i >= w

\* for i, v in enumerate(values): the iterations from index i on
RECURSIVE sma_loop(_, _, _, _, _)
sma_loop(vals, w, i, cumsum, acc) ==
    IF i >= Len(vals) THEN acc
    ELSE LET added == FAdd(cumsum, vals[i + 1])
             kept  == IF LeavesWindow(i, w) THEN FSub(added, vals[i - w + 1]) ELSE added
         IN  IF Evaluated(kept) /\ Evaluated(acc) /\ i + 1 >= w
             THEN sma_loop(vals, w, i + 1, kept, Append(acc, FDiv(kept, FromInt(w))))
             ELSE sma_loop(vals, w, i + 1, kept, acc)

_simple_moving_average(vals, w) ==
    IF w <= 0 THEN << >> ELSE sma_loop(vals, w, 0, FZero, << >>)

\* for i in range(1, len(values)): the iterations from index i on
RECURSIVE ema_loop(_, _, _, _, _)
ema_loop(vals, k, i, ema_prev, ema_vals) ==
    IF i >= Len(vals) THEN ema_vals
    ELSE LET next == FAdd(FMul(vals[i + 1], k), FMul(ema_prev, FSub(FromInt(1), k)))
         IN  CASE Evaluated(next) /\ Evaluated(ema_vals) ->
                  ema_loop(vals, k, i + 1, next, Append(ema_vals, next))

\* "ema_vals = [values[0] * k]" written for "ema_vals = [values[0]]"
_ema_scaled_seed(vals, p) ==
    IF p <= 0 \/ vals = << >> THEN << >>
    ELSE ema_loop(vals, FDiv(FromInt(2), FAdd(FromInt(p), FromInt(1))), 1,
                  FMul(vals[1], FDiv(FromInt(2), FAdd(FromInt(p), FromInt(1)))),
                  << FMul(vals[1], FDiv(FromInt(2), FAdd(FromInt(p), FromInt(1)))) >>)

_ema(vals, p) ==
    IF p <= 0 \/ vals = << >> THEN << >>
    ELSE ema_loop(vals, FDiv(FromInt(2), FAdd(FromInt(p), FromInt(1))), 1, vals[1], << vals[1] >>)


-----------------------------------------------------------------------------
(* SpecSma: _simple_moving_average applied to a list of floats.            *)

MaxValues == 4   \* longest list of values (but for the documented example)
MaxWindow == 3   \* largest window

\* 0.1 and 2.0 ** 53
Tenth   == FDiv(FromInt(1), FromInt(10))
TwoTo53 == FRound(0, << 1 >>, Mantissa, FALSE)

SmaValues == { FromInt(1), FromInt(2), Tenth, TwoTo53 }

\* [1, 2, ..., n]
Ramp(n) == [i \in 1..n |-> FromInt(i)]

SmaInputs == SeqsUpTo(SmaValues, MaxValues) \cup { Ramp(n) : n \in 3..5 }

InitSma ==
    /\ pc = "sma"
    /\ values \in SmaInputs
    /\ window \in 0..MaxWindow
    /\ period = 0 /\ bars = << >> /\ quote = Nothing /\ out = Nothing
    /\ HttpIdle /\ FetchIdle /\ NormIdle /\ ResolveIdle /\ ParseIdle /\ HistIdle /\ QueryIdle

Sma ==
    /\ pc = "sma"
    /\ out' = _simple_moving_average(values, window)
    /\ pc' = "done"
    /\ UNCHANGED <<values, window, period, bars, quote, httpVars, fetchVars,
                   normVars, resolveVars, parseVars, histVars, queryVars>>

NextSma == Sma

SpecSma == InitSma /\ [][NextSma]_vars

\* sum(vals) / len(vals): the values added from the left, then one division
RECURSIVE FSum(_)
FSum(vals) ==
    IF vals = << >> THEN FZero
    ELSE FAdd(FSum(SubSeq(vals, 1, Len(vals) - 1)), vals[Len(vals)])

DirectMean(vals) == FDiv(FSum(vals), FromInt(Len(vals)))

\* n - w + 1 outputs when n >= w, none when n < w
SmaCount ==
    LET n == Len(values)
    IN  Len(out) = IF n >= window THEN n - window + 1 ELSE 0

\* C13 as stated: for a window w >= 1, n-w+1 outputs when n >= w and none
\* otherwise, and output k is the mean of values[k..k+w-1] computed directly.
SmaIsDirectMean ==
    (pc = "done" /\ window >= 1) =>
        /\ SmaCount
        /\ \A k \in DOMAIN out :
               out[k] = DirectMean(SubSeq(values, k, k + window - 1))

\* The values are whole numbers small enough for every sum to be exact
WholeValues == \A i \in DOMAIN values : \E n \in 1..5 : values[i] = FromInt(n)

\* C13, amended: for a window w >= 1 the count is n-w+1 (none when n < w),
\* and output k is the directly computed mean of values[k..k+w-1] whenever
\* the values are whole numbers whose sums are exact; [1,2,3,4,5] with
\* window 3 yields [2,3,4].
SmaIsDirectMeanOfWholeValues ==
    (pc = "done" /\ window >= 1) =>
        /\ SmaCount
        /\ WholeValues =>
               \A k \in DOMAIN out :
                   out[k] = DirectMean(SubSeq(values, k, k + window - 1))
        /\ (values = Ramp(5) /\ window = 3) =>
               out = << FromInt(2), FromInt(3), FromInt(4) >>

\* The documented example has been computed.
SmaIsDirectMeanOfWholeValuesWitness ==
    /\ pc = "done" /\ values = Ramp(5) /\ window = 3
    /\ out = << FromInt(2), FromInt(3), FromInt(4) >>

-----------------------------------------------------------------------------
(* compute_macd_status.  A bar is given by the keys the indicators read.   *)

MaxBars == 4   \* longest list of bars

FastPeriod   == 12   \* _ema(closes, 12)
SlowPeriod   == 26   \* _ema(closes, 26)
SignalPeriod == 9    \* _ema(dif, 9)

GoldenCross == <<"U+91D1", "U+53C9">>
DeathCross  == <<"U+6B7B", "U+53C9">>
NoCross     == <<"U+2014">>

\* [float(b.get("close") or 0.0) for b in bars]
Closes(bs) == [i \in DOMAIN bs |-> bs[i].close]

\* [ema12[i] - ema26[i] for i in range(n)], n the length of the shorter list
dif_of(ema12, ema26) ==
    [i \in 1..(IF Len(ema12) < Len(ema26) THEN Len(ema12) ELSE Len(ema26)) |->
        FSub(ema12[i], ema26[i])]

\* dif with dea = _ema(dif, 9)
dea_of(dif) == [dif |-> dif, dea |-> _ema(dif, SignalPeriod)]

\* dif and dea, for two closes or more
macd_lines(closes) == dea_of(dif_of(_ema(closes, FastPeriod), _ema(closes, SlowPeriod)))

\* "prev <= 0" written for "prev < 0"
WasBelowOrAt(prev) == FCmp(prev, FZero) <= 0

\* prev < 0
WasBelow(prev) == FCmp(prev, FZero) < 0

\* The tests on last and prev
cross_of(last, prev) ==
    IF FCmp(last, FZero) >= 0 /\ WasBelow(prev) THEN GoldenCross
    ELSE IF FCmp(last, FZero) <= 0 /\ FCmp(prev, FZero) > 0 THEN DeathCross
    ELSE NoCross

\* What is returned once dif and dea are computed
status_of(ln) ==
    IF Len(ln.dif) < 2 \/ Len(ln.dea) < 2
    THEN [dif |-> ln.dif, dea |-> ln.dea, status |-> NoCross]
    ELSE [dif |-> ln.dif, dea |-> ln.dea,
          status |-> cross_of(FSub(ln.dif[Len(ln.dif)], ln.dea[Len(ln.dea)]),
                              FSub(ln.dif[Len(ln.dif) - 1], ln.dea[Len(ln.dea) - 1]))]

\* The lines it computed, where it got that far, and what it returned
compute_macd_status(bs) ==
    IF Len(bs) < 2 THEN [dif |-> << >>, dea |-> << >>, status |-> NoCross]
    ELSE status_of(macd_lines(Closes(bs)))

-----------------------------------------------------------------------------
(* SpecMacd: compute_macd_status applied to a list of bars.                *)

FlatBar(c) == [high |-> FromInt(c), low |-> FromInt(c), close |-> FromInt(c)]

MacdBars == { FlatBar(c) : c \in {1, 5, 9} }

InitMacd ==
    /\ pc = "macd"
    /\ bars \in SeqsUpTo(MacdBars, MaxBars)
    /\ values = << >> /\ window = 0 /\ period = 0 /\ quote = Nothing /\ out = Nothing
    /\ HttpIdle /\ FetchIdle /\ NormIdle /\ ResolveIdle /\ ParseIdle /\ HistIdle /\ QueryIdle

Macd ==
    /\ pc = "macd"
    /\ out' = compute_macd_status(bars)
    /\ pc' = "done"
    /\ UNCHANGED <<values, window, period, bars, quote, httpVars, fetchVars,
                   normVars, resolveVars, parseVars, histVars, queryVars>>

NextMacd == Macd

SpecMacd == InitMacd /\ [][NextMacd]_vars

\* fast - signal at the last point and at the one before it
LastGap == FSub(out.dif[Len(out.dif)], out.dea[Len(out.dea)])
PrevGap == FSub(out.dif[Len(out.dif) - 1], out.dea[Len(out.dea) - 1])

Negative(x) == x.man # << >> /\ x.sign = 1
Positive(x) == x.man # << >> /\ x.sign = 0

\* C14: with two bars or more the status is the bullish cross exactly when
\* the last gap is >= 0 and the one before is < 0, the bearish cross
\* exactly when the last is <= 0 and the one before is > 0, and no signal
\* otherwise; the two cross conditions never hold together; with fewer than
\* two bars the status is no signal.
MacdStatusFollowsLastTwoGaps ==
    pc = "done" =>
        IF Len(bars) < 2 THEN out.status = NoCross
        ELSE LET bullish == ~Negative(LastGap) /\ Negative(PrevGap)
                 bearish == ~Positive(LastGap) /\ Positive(PrevGap)
             IN  /\ ~(bullish /\ bearish)
                 /\ out.status = GoldenCross <=> bullish
                 /\ out.status = DeathCross <=> bearish
                 /\ out.status = NoCross <=> (~bullish /\ ~bearish)

\* A bullish cross has been reported.
MacdStatusFollowsLastTwoGapsWitness ==
    /\ pc = "done"
    /\ Closes(bars) = << FromInt(5), FromInt(1), FromInt(9) >>
    /\ out.status = GoldenCross
    /\ Negative(PrevGap) /\ Positive(LastGap)

\* C21: for exactly two bars the fast line and the signal line are both 0 at
\* the first point, so the earlier of the two gaps is 0 and no signal is
\* reported, whatever the closes.
TwoBarsGiveNoSignal ==
    (pc = "done" /\ Len(bars) = 2) =>
        /\ Len(out.dif) = 2 /\ Len(out.dea) = 2
        /\ out.dif[1] = FZero /\ out.dea[1] = FZero
        /\ PrevGap = FZero
        /\ out.status = NoCross

\* Two bars whose close rises from 1 to 9: the last gap is above 0 and no
\* signal is reported.
TwoBarsGiveNoSignalWitness ==
    /\ pc = "done"
    /\ Closes(bars) = << FromInt(1), FromInt(9) >>
    /\ Positive(LastGap)
    /\ out.status = NoCross

-----------------------------------------------------------------------------
(* compute_order_metrics.                                                  *)

MaxLevels == 2   \* most levels on one side of an order book

\* sum(v for v, _ in levels)
RECURSIVE SumVolumes(_)
SumVolumes(levels) ==
    IF levels = << >> THEN 0 ELSE Head(levels)[1] + SumVolumes(Tail(levels))

\* "if total >= 0" written for "if total > 0"
HasOrdersOrNone(total) == total >= 0

\* if total > 0
HasOrders(total) == total > 0

\* a / b for ints a and b
IntTrueDiv(a, b) == FDiv(FromInt(a), FromInt(b))

compute_order_metrics(q) ==
    LET buy_shares  == SumVolumes(q.buys)
        sell_shares == SumVolumes(q.sells)
        total       == buy_shares + sell_shares
    IN  [order_ratio |->
             IF HasOrders(total)
             THEN FMul(IntTrueDiv(buy_shares - sell_shares, total), FromInt(100))
             ELSE FZero,
         buy_sell_ratio |->
             IF sell_shares = 0
             THEN (IF buy_shares > 0 THEN FInf ELSE FromInt(1))
             ELSE IntTrueDiv(buy_shares, sell_shares)]

-----------------------------------------------------------------------------
(* SpecOrder: compute_order_metrics applied to the order book of a quote.  *)

\* (volume, price) pairs; parse_sina_line gives a quote from Hong Kong no
\* level at all
BookLevels == { << v, FromInt(10) >> : v \in {0, 100, 200, -100} }

OrderBooks == SeqsUpTo(BookLevels, MaxLevels)

InitOrder ==
    /\ pc = "order"
    /\ quote \in [buys : OrderBooks, sells : OrderBooks]
    /\ values = << >> /\ window = 0 /\ period = 0 /\ bars = << >> /\ out = Nothing
    /\ HttpIdle /\ FetchIdle /\ NormIdle /\ ResolveIdle /\ ParseIdle /\ HistIdle /\ QueryIdle

Order ==
    /\ pc = "order"
    /\ out' = compute_order_metrics(quote)
    /\ pc' = "done"
    /\ UNCHANGED <<values, window, period, bars, quote, httpVars, fetchVars,
                   normVars, resolveVars, parseVars, histVars, queryVars>>

NextOrder == Order

SpecOrder == InitOrder /\ [][NextOrder]_vars

\* The volumes of one side added up
SideTotal(levels) ==
    LET v[i \in 0..Len(levels)] == IF i = 0 THEN 0 ELSE v[i - 1] + levels[i][1]
    IN  v[Len(levels)]

\* C15: skew 0 and ratio 1 when both totals are 0; the infinite sentinel
\* when the sell total is 0 and the buy total is positive; buy total over
\* sell total when the sell total is not 0; and no division by zero.
OrderMetricsAtZeroTotals ==
    pc = "done" =>
        LET b == SideTotal(quote.buys)
            s == SideTotal(quote.sells)
        IN  /\ (b = 0 /\ s = 0) =>
                   out.order_ratio = FZero /\ out.buy_sell_ratio = FromInt(1)
            /\ (s = 0 /\ b > 0) => out.buy_sell_ratio = FInf
            /\ s # 0 => out.buy_sell_ratio = FDiv(FromInt(b), FromInt(s))
            /\ out.order_ratio.cls # "ZeroDivisionError"
            /\ out.buy_sell_ratio.cls # "ZeroDivisionError"

\* The metrics of 100 shares bid and none offered have been computed.
OrderMetricsAtZeroTotalsWitness ==
    /\ pc = "done"
    /\ quote = [buys |-> << <<100, FromInt(10)>> >>, sells |-> << >>]
    /\ out = [order_ratio |-> FromInt(100), buy_sell_ratio |-> FInf]

-----------------------------------------------------------------------------
(* SpecEma: _ema applied to a list of floats.                              *)

MaxPeriod == 13   \* largest period

EmaValues == { FromInt(1), FromInt(3), FromInt(5) }

InitEma ==
    /\ pc = "ema"
    /\ values \in SeqsUpTo(EmaValues, MaxValues)
    /\ period \in 0..MaxPeriod
    /\ window = 0 /\ bars = << >> /\ quote = Nothing /\ out = Nothing
    /\ HttpIdle /\ FetchIdle /\ NormIdle /\ ResolveIdle /\ ParseIdle /\ HistIdle /\ QueryIdle

Ema ==
    /\ pc = "ema"
    /\ out' = _ema(values, period)
    /\ pc' = "done"
    /\ UNCHANGED <<values, window, period, bars, quote, httpVars, fetchVars,
                   normVars, resolveVars, parseVars, histVars, queryVars>>

NextEma == Ema

SpecEma == InitEma /\ [][NextEma]_vars

\* C16: for a period >= 1 there is one output per input, the first output
\* is the first input, and where all inputs are one constant every output
\* is that constant; no input gives no output.
EmaOfConstantIsConstant ==
    (pc = "done" /\ period >= 1) =>
        /\ Len(out) = Len(values)
        /\ values # << >> => out[1] = values[1]
        /\ (\A i \in DOMAIN values : values[i] = values[1]) => out = values

-----------------------------------------------------------------------------
(* SpecBackoff: the two loops of the quote fetch again, started with       *)
(* enough retries for the exponential term to pass its ceiling.            *)

InitBackoff ==
    /\ pc = "request"
    /\ endpoints \in 1..MaxEndpoints
    /\ max_retries \in 0..MaxBackoffRetries
    /\ idx = 0 /\ attempt = 0
    /\ last_exception = None /\ fetch_exception = None
    /\ slept = << >>
    /\ fetch_result = [kind |-> "none"]
    /\ requests = << >>
    /\ NormIdle /\ ResolveIdle /\ ParseIdle /\ RestIdle

NextBackoff ==
    \/ AttemptSucceeds("body_a")
    \/ AttemptFailsRetry("timeout")
    \/ AttemptFailsFinal("timeout")

SpecBackoff == InitBackoff /\ [][NextBackoff]_vars

\* min(2^a, 8)
CappedPower(a) == LET p == 2^a IN IF p <= 8 THEN p ELSE 8

\* x <= y for two floats
AtMost(x, y) == FCmp(x, y) <= 0

\* C17: a failed attempt a < max_retries is followed by exactly one sleep,
\* of a delay from min(2^a, 8) to 1.3 * min(2^a, 8); the failed attempt
\* max_retries and a successful attempt are followed by no sleep, so none
\* lies between the last attempt on one endpoint and the first on the next.
SleepOnlyBetweenRetries ==
    IF requests = << >> THEN slept = << >>
    ELSE LET r == requests[Len(requests)]
             b == FromInt(CappedPower(r.attempt))
         IN  IF ~r.ok /\ r.attempt < max_retries
             THEN /\ Len(slept) = 1
                  /\ AtMost(b, slept[1])
                  /\ AtMost(slept[1], FMul(FDiv(FromInt(13), FromInt(10)), b))
             ELSE slept = << >>

\* The fifth of six attempts on an endpoint has failed and was followed by
\* one sleep, of more than 8.
SleepOnlyBetweenRetriesWitness ==
    /\ requests # << >>
    /\ LET r == requests[Len(requests)]
       IN  /\ ~r.ok /\ r.attempt = 4 /\ max_retries = 5
           /\ Len(slept) = 1 /\ FCmp(slept[1], FromInt(8)) > 0

-----------------------------------------------------------------------------
(* compute_kdj_j, and SpecKdj: compute_kdj_j applied to a list of bars.     *)

DefaultKdjPeriod == 9   \* period: int = 9

\* max(xs) and min(xs) of a non-empty list of floats
RECURSIVE FMaxOf(_)
FMaxOf(xs) ==
    IF Len(xs) = 1 THEN xs[1]
    ELSE LET m == FMaxOf(SubSeq(xs, 1, Len(xs) - 1))
         IN  IF FCmp(xs[Len(xs)], m) > 0 THEN xs[Len(xs)] ELSE m

RECURSIVE FMinOf(_)
FMinOf(xs) ==
    IF Len(xs) = 1 THEN xs[1]
    ELSE LET m == FMinOf(SubSeq(xs, 1, Len(xs) - 1))
         IN  IF FCmp(xs[Len(xs)], m) < 0 THEN xs[Len(xs)] ELSE m

\* "denom < 0" written for "denom <= 0"
NoSpreadStrict(denom) == FCmp(denom, FZero) < 0

\* denom <= 0
NoSpread(denom) == FCmp(denom, FZero) <= 0

TwoThirds == FDiv(FromInt(2), FromInt(3))
OneThird  == FDiv(FromInt(1), FromInt(3))

\* start = max(0, i - period + 1)
window_start(i, p) == IF i - p + 1 > 0 THEN i - p + 1 ELSE 0

\* rsv = 0.0 if denom <= 0 else (closes[i] - window_low) / denom * 100.0
rsv_of(close, window_low, denom) ==
    IF NoSpread(denom) THEN FZero
    ELSE FMul(FDiv(FSub(close, window_low), denom), FromInt(100))

\* The rsv of iteration i (from 0), whose window starts at index start
window_rsv(bs, start, i, window_low) ==
    rsv_of(bs[i + 1].close, window_low,
           FSub(FMaxOf([n \in 1..(i + 1 - start) |-> bs[start + n].high]), window_low))

\* (2.0 / 3.0) * prev + (1.0 / 3.0) * x: k_curr of k_prev and rsv, d_curr of
\* d_prev and k_curr
kdj_smooth(prev, x) == FAdd(FMul(TwoThirds, prev), FMul(OneThird, x))

\* for i in range(len(closes)): the iterations from index i on.  The result
\* holds j and, beside it, the rsv, k_curr and d_curr of every iteration.
RECURSIVE kdj_loop(_, _, _, _, _, _)
RECURSIVE kdj_step(_, _, _, _, _, _, _)
RECURSIVE kdj_next(_, _, _, _, _, _, _)

\* k_prev, d_prev = k_curr, d_curr
kdj_next(bs, p, i, acc, rsv, k_curr, d_curr) ==
    CASE Evaluated(d_curr) /\ Evaluated(acc) ->
        kdj_loop(bs, p, i + 1, k_curr, d_curr,
                 [rsv |-> Append(acc.rsv, rsv), k |-> Append(acc.k, k_curr),
                  d |-> Append(acc.d, d_curr)])

\* The iteration once its rsv is computed, or has raised
kdj_step(bs, p, i, k_prev, d_prev, acc, rsv) ==
    IF rsv.cls = "ZeroDivisionError"
    THEN [j |-> Nothing, rsv |-> acc.rsv, k |-> acc.k, d |-> acc.d,
          raised |-> "ZeroDivisionError"]
    ELSE kdj_next(bs, p, i, acc, rsv, kdj_smooth(k_prev, rsv),
                  kdj_smooth(d_prev, kdj_smooth(k_prev, rsv)))

kdj_loop(bs, p, i, k_prev, d_prev, acc) ==
    IF i >= Len(bs)
    THEN [j |-> Some(FSub(FMul(FromInt(3), k_prev), FMul(FromInt(2), d_prev))),
          rsv |-> acc.rsv, k |-> acc.k, d |-> acc.d, raised |-> None]
    ELSE IF window_start(i, p) > i
    THEN [j |-> Nothing, rsv |-> acc.rsv, k |-> acc.k, d |-> acc.d,
          raised |-> "ValueError"]
    ELSE kdj_step(bs, p, i, k_prev, d_prev, acc,
                  window_rsv(bs, window_start(i, p), i,
                             FMinOf([n \in 1..(i + 1 - window_start(i, p)) |->
                                        bs[window_start(i, p) + n].low])))

compute_kdj_j(bs, p) ==
    IF bs = << >>
    THEN [j |-> Nothing, rsv |-> << >>, k |-> << >>, d |-> << >>, raised |-> None]
    ELSE kdj_loop(bs, p, 0, FromInt(50), FromInt(50),
                  [rsv |-> << >>, k |-> << >>, d |-> << >>])

\* A bar with a high, a low and a close
RangeBar(h, l, c) == [high |-> FromInt(h), low |-> FromInt(l), close |-> FromInt(c)]

KdjBars == { FlatBar(5), RangeBar(9, 1, 5), RangeBar(5, 1, 1), RangeBar(1, 5, 3) }

InitKdj ==
    /\ pc = "kdj"
    /\ bars \in SeqsUpTo(KdjBars, MaxBars)
    /\ period \in 0..MaxWindow
    /\ values = << >> /\ window = 0 /\ quote = Nothing /\ out = Nothing
    /\ HttpIdle /\ FetchIdle /\ NormIdle /\ ResolveIdle /\ ParseIdle /\ HistIdle /\ QueryIdle

Kdj ==
    /\ pc = "kdj"
    /\ out' = compute_kdj_j(bars, period)
    /\ pc' = "done"
    /\ UNCHANGED <<values, window, period, bars, quote, httpVars, fetchVars,
                   normVars, resolveVars, parseVars, histVars, queryVars>>

NextKdj == Kdj

SpecKdj == InitKdj /\ [][NextKdj]_vars

\* The bars of the window that ends at bar i (counted from 1)
WindowOf(i) == { n \in 1..i : n > i - period }

\* The highest high of the window that ends at bar i is its lowest low
WindowIsFlat(i) ==
    \E top \in WindowOf(i), bottom \in WindowOf(i) :
        /\ \A n \in WindowOf(i) : FCmp(bars[n].high, bars[top].high) <= 0
        /\ \A n \in WindowOf(i) : FCmp(bars[n].low, bars[bottom].low) >= 0
        /\ FCmp(bars[top].high, bars[bottom].low) = 0

\* (2/3) * before + (1/3) * input
Smoothed(before, input) == FAdd(FMul(TwoThirds, before), FMul(OneThird, input))

\* C20: for a non-empty list of bars and a period >= 1, compute_kdj_j raises
\* nothing; the RSV of a bar whose window has its highest high equal to its
\* lowest low is 0; the first K and D are smoothed from 50; and the value
\* returned is 3 * K - 2 * D of the last bar.
KdjGuardsFlatWindow ==
    (pc = "done" /\ bars # << >> /\ period >= 1) =>
        /\ out.raised = None
        /\ out.j # Nothing
        /\ Len(out.rsv) = Len(bars) /\ Len(out.k) = Len(bars) /\ Len(out.d) = Len(bars)
        /\ \A i \in DOMAIN bars :
              /\ out.rsv[i].cls = "finite" /\ out.k[i].cls = "finite" /\ out.d[i].cls = "finite"
              /\ WindowIsFlat(i) => out.rsv[i] = FZero
              /\ out.k[i] = Smoothed(IF i = 1 THEN FromInt(50) ELSE out.k[i - 1], out.rsv[i])
              /\ out.d[i] = Smoothed(IF i = 1 THEN FromInt(50) ELSE out.d[i - 1], out.k[i])
        /\ out.j[1] = FSub(FMul(FromInt(3), out.k[Len(bars)]),
                          FMul(FromInt(2), out.d[Len(bars)]))

\* A flat bar after a bar with a range, taken with period 1: the window of
\* the second bar is flat and its RSV is 0, the first bar's is 50.
KdjGuardsFlatWindowWitness ==
    /\ pc = "done"
    /\ bars = << RangeBar(9, 1, 5), FlatBar(5) >>
    /\ period = 1
    /\ out.rsv = << FromInt(50), FZero >>
    /\ out.j # Nothing

-----------------------------------------------------------------------------
(* query_and_display, and SpecQuery: one query cycle over a batch of       *)
(* resolved codes.  A block of the output holds the values its lines show. *)

Ma12Window == 12   \* _simple_moving_average(closes_60m, 12)
MinuteKlt  == 60   \* fetch_minute_klines_from_eastmoney(full, klt=60, limit=200)

Dash == <<"-">>

\* for line in text.splitlines(): ... result[full_code] = parsed
RECURSIVE quotes_of(_, _)
quotes_of(lines, result) ==
    IF lines = << >> THEN result
    ELSE LET p == parse_sina_line(Head(lines))
         IN  IF p = Nothing THEN quotes_of(Tail(lines), result)
             ELSE quotes_of(Tail(lines), ((p[1].exchange \o p[1].code) :> p[1]) @@ result)

\* quotes.get(full_code) is a quote
HasQuote(qs, full_code) == qs # << >> /\ full_code \in DOMAIN qs

\* What the daily bars give: the turnover of the last bar, J and the cross
daily_indicators(bars_daily) ==
    IF bars_daily = << >>
    THEN [turnover |-> Nothing, kdj_j |-> Nothing, macd |-> Dash]
    ELSE [turnover |-> Some(bars_daily[Len(bars_daily)].turnover_pct),
          kdj_j    |-> compute_kdj_j(bars_daily, DefaultKdjPeriod).j,
          macd     |-> compute_macd_status(bars_daily).status]

\* The last 12-bar average of the 60-minute closes, or else of the daily ones
\* _simple_moving_average(closes, 12) where there are 12 closes or more
ma12_list(closes) ==
    IF Len(closes) >= Ma12Window THEN _simple_moving_average(closes, Ma12Window) ELSE << >>

\* ma12_value: the last entry of the first of the two lists that has one
last_of_first(list_60m, list_daily) ==
    IF list_60m # << >> THEN Some(list_60m[Len(list_60m)])
    ELSE IF list_daily # << >> THEN Some(list_daily[Len(list_daily)])
    ELSE Nothing

ma12_of(bars_daily, bars_60m) ==
    last_of_first(ma12_list(Closes(bars_60m)), ma12_list(Closes(bars_daily)))

\* n records of a reply decoded by the history fetch of klt k
HistoryBars(n, k) == decode_klines([i \in 1..n |-> KlineRecord(i, KlineMinFields)], << >>, k)

\* What the two history fetches of a code may return
DailyOutcomes  == { << >>, HistoryBars(1, DailyKlt), HistoryBars(Ma12Window, DailyKlt) }
MinuteOutcomes == { << >>, HistoryBars(Ma12Window, MinuteKlt) }

DailyIndicators == [d \in DailyOutcomes |-> daily_indicators(d)]
Ma12Values      == [d \in DailyOutcomes |-> [m \in MinuteOutcomes |-> ma12_of(d, m)]]

NoIndicators == [turnover |-> Nothing, kdj_j |-> Nothing, macd |-> Dash]

\* if exchange in {"sh", "sz", "bj"}
Computed(q) == q.exchange \in {SH, SZ, BJ}

\* The block print_quote_kv prints for a quote, given what the daily bars
\* gave and the 12-bar average
block_of(q, ind, ma12) ==
    [kind |-> "quote", code |-> q.code,
     name |-> IF q.name = << >> THEN Dash ELSE q.name,
     current    |-> q.current,
     change_amt |-> FSub(q.current, q.prev_close),
     ma12_pos   |-> IF ma12 # Nothing /\ ma12[1].man # << >>
                    THEN Some(FMul(FDiv(FSub(q.current, ma12[1]), ma12[1]), FromInt(100)))
                    ELSE Nothing,
     kdj_j |-> ind.kdj_j, macd |-> ind.macd, turnover |-> ind.turnover]

query_block(q, bars_daily, bars_60m) ==
    block_of(q, IF Computed(q) THEN DailyIndicators[bars_daily] ELSE NoIndicators,
             IF Computed(q) THEN Ma12Values[bars_daily][bars_60m] ELSE Nothing)

\* The block printed where quotes holds nothing for a code
placeholder_block(full_code) == [kind |-> "placeholder", code |-> full_code, name |-> Dash]

\* The block print_order_book prints for a quote
book_block(q) ==
    [kind |-> "book", code |-> q.code,
     sells |-> [i \in DOMAIN q.sells |-> q.sells[Len(q.sells) + 1 - i]], buys |-> q.buys]

\* "break" written for "continue"
AfterPlaceholderBreak(i, n) == n

\* continue: the loop goes on with the next code
AfterPlaceholder(i, n) == i + 1

QueryCodes == { SH \o <<"6","0","0","0","0","0">>, SZ \o <<"0","0","0","0","0","1">>,
                HK \o <<"0","0","7","0","0">> }

StrayCode == SZ \o <<"3","9","9","0","0","1">>

\* The lists of resolved codes: no code twice
QueryLists == { l \in SeqsUpTo(QueryCodes, MaxCodes) : Cardinality({ l[i] : i \in DOMAIN l }) = Len(l) }

QueryHead(c) == <<"v","a","r"," ">> \o Marker \o c \o <<"=">>

\* The line of a reply for code c: a quote, an empty payload, or no line
ReplyLine(c, kind) ==
    CASE kind = "quote" ->
             << QueryHead(c) \o Wrap(JoinFields(IF StartsWith(c, HK) THEN HkMinFields
                                                ELSE AShareMinFields, -1), 1) >>
      [] kind = "empty"  -> << QueryHead(c) \o Wrap(<< >>, 1) >>
      [] kind = "absent" -> << >>

RECURSIVE ReplyLines(_, _)
ReplyLines(norm, kinds) ==
    IF norm = << >> THEN << >>
    ELSE ReplyLine(Head(norm), Head(kinds)) \o ReplyLines(Tail(norm), Tail(kinds))

Reversed(s) == [i \in DOMAIN s |-> s[Len(s) + 1 - i]]

\* The replies to a request for the codes norm: a line or none per code and
\* a line nobody asked for, in the order asked or in the opposite order
Replies(norm) ==
    LET asked == { ReplyLines(norm, kinds) \o ReplyLine(StrayCode, "quote") :
                       kinds \in [1..Len(norm) -> {"quote", "empty", "absent"}] }
    IN  asked \cup { Reversed(r) : r \in asked }

InitQuery ==
    /\ pc = "query"
    /\ normalized \in QueryLists
    /\ show_detail \in BOOLEAN
    /\ quotes = << >> /\ code_idx = 0 /\ details = << >> /\ printed = << >>
    /\ codes = << >> /\ renormalized = << >>
    /\ HttpIdle /\ FetchIdle /\ ResolveIdle /\ ParseIdle /\ HistIdle /\ CalcIdle

\* if not normalized: print the hint; return
QueryNothing ==
    /\ pc = "query" /\ normalized = << >>
    /\ printed' = Append(printed, [kind |-> "hint"])
    /\ pc' = "nothing"
    /\ UNCHANGED <<show_detail, quotes, code_idx, details, httpVars, fetchVars,
                   normVars, resolveVars, parseVars, histVars, calcVars>>

\* fetch_sina_quotes raises: print the error; return
QueryFetchFails(e) ==
    /\ pc = "query" /\ normalized # << >>
    /\ printed' = Append(printed, [kind |-> "error", exc |-> e])
    /\ pc' = "failed"
    /\ UNCHANGED <<show_detail, quotes, code_idx, details, httpVars, fetchVars,
                   normVars, resolveVars, parseVars, histVars, calcVars>>

\* fetch_sina_quotes returns the quotes decoded from the lines of a reply
QueryFetchSucceeds ==
    /\ pc = "query" /\ normalized # << >>
    /\ \E reply \in Replies(normalized) : quotes' = quotes_of(reply, << >>)
    /\ pc' = "loop"
    /\ UNCHANGED <<show_detail, code_idx, details, printed, httpVars, fetchVars,
                   normVars, resolveVars, parseVars, histVars, calcVars>>

\* One iteration of the loop for a code without a quote
QueryPlaceholder ==
    /\ pc = "loop" /\ code_idx < Len(normalized)
    /\ ~HasQuote(quotes, normalized[code_idx + 1])
    /\ printed' = Append(printed, placeholder_block(normalized[code_idx + 1]))
    /\ code_idx' = AfterPlaceholder(code_idx, Len(normalized))
    /\ UNCHANGED <<pc, show_detail, quotes, details, httpVars, fetchVars,
                   normVars, resolveVars, parseVars, histVars, calcVars>>

\* One iteration of the loop for a code with a quote; the history fetches,
\* made for sh, sz and bj only, return bars_daily and bars_60m
QueryQuote(bars_daily, bars_60m) ==
    /\ pc = "loop" /\ code_idx < Len(normalized)
    /\ HasQuote(quotes, normalized[code_idx + 1])
    /\ LET q    == quotes[normalized[code_idx + 1]]
           full == q.exchange \o q.code
       IN  /\ printed' = Append(printed, query_block(q, bars_daily, bars_60m))
           /\ details' = Append(details, <<full, q>>)
    /\ code_idx' = code_idx + 1
    /\ UNCHANGED <<pc, show_detail, quotes, httpVars, fetchVars,
                   normVars, resolveVars, parseVars, histVars, calcVars>>

\* After the loop: if show_detail, print_order_book for each entry of details
QueryDetails ==
    /\ pc = "loop" /\ code_idx >= Len(normalized)
    /\ printed' = IF show_detail
                  THEN printed \o [i \in DOMAIN details |-> book_block(details[i][2])]
                  ELSE printed
    /\ pc' = "returned"
    /\ UNCHANGED <<show_detail, quotes, code_idx, details, httpVars, fetchVars,
                   normVars, resolveVars, parseVars, histVars, calcVars>>

NextQuery ==
    \/ QueryNothing
    \/ QueryFetchFails("timeout")
    \/ QueryFetchSucceeds
    \/ QueryPlaceholder
    \/ \E d \in DailyOutcomes, m \in MinuteOutcomes : QueryQuote(d, m)
    \/ QueryDetails

SpecQuery == InitQuery /\ [][NextQuery]_vars

IsCodeBlock(b) == b.kind \in {"quote", "placeholder"}

\* The blocks printed for codes, and how many a cycle at this point owes
CodeBlocks == SelectSeq(printed, IsCodeBlock)
CodesDone  == IF pc = "returned" THEN Len(normalized) ELSE code_idx

\* C19: in a cycle whose quote fetch succeeded, the blocks printed for codes
\* are one per resolved code, in the order resolved: a placeholder naming
\* the code where the reply held no quote for it, else that code's quote;
\* when the cycle ends every resolved code has its block, and the blocks
\* of the order books come after them all.
OneBlockPerCodeInOrder ==
    (pc \in {"loop", "returned"}) =>
        /\ Len(CodeBlocks) = CodesDone
        /\ SubSeq(printed, 1, CodesDone) = CodeBlocks
        /\ \A i \in 1..Len(CodeBlocks) :
              IF HasQuote(quotes, normalized[i])
              THEN /\ CodeBlocks[i].kind = "quote"
                   /\ CodeBlocks[i].code = From(normalized[i], 2)
              ELSE /\ CodeBlocks[i].kind = "placeholder"
                   /\ CodeBlocks[i].code = normalized[i]

\* A cycle over sh600000 and sz000001 has ended; the reply held a quote for
\* the second code only: a placeholder was printed, then the quote.
OneBlockPerCodeInOrderWitness ==
    /\ pc = "returned"
    /\ normalized = << SH \o <<"6","0","0","0","0","0">>, SZ \o <<"0","0","0","0","0","1">> >>
    /\ ~HasQuote(quotes, normalized[1]) /\ HasQuote(quotes, normalized[2])
    /\ Len(printed) >= 2
    /\ printed[1] = placeholder_block(normalized[1])
    /\ printed[2].kind = "quote" /\ printed[2].code = <<"0","0","0","0","0","1">>

-----------------------------------------------------------------------------
(***************************************************************************)
(* query_and_display with its history fetches made request by request      *)
(* (SpecQueryHistory): for a code of sh, sz or bj the loop body calls      *)
(* fetch_daily_klines_from_eastmoney, then                                 *)
(* fetch_minute_klines_from_eastmoney, then prints the quote.  While a     *)
(* fetch runs, klt is its period and bars holds bars_daily; requests       *)
(* keeps the requests of both fetches of the code being handled.           *)
(***************************************************************************)

\* Replies of a history request: one record, or a body that is no JSON
CycleDocs == { KlinesDoc(JArr(<< KlineRecord(1, KlineMinFields) >>)), JInvalid }

\* What the two fetches can return on these replies, and the indicators
\* worked out from it
CycleDailyOutcomes  == { << >>, HistoryBars(1, DailyKlt) }
CycleMinuteOutcomes == { << >>, HistoryBars(1, MinuteKlt) }

CycleMa12Values ==
    [d \in CycleDailyOutcomes |-> [m \in CycleMinuteOutcomes |-> ma12_of(d, m)]]

\* The locals of a history fetch as its endpoint loop is entered
HistoryStart(k) ==
    /\ klt' = k
    /\ endpoints' = HistoryEndpoints
    /\ max_retries' = HistoryMaxRetries
    /\ idx' = 0 /\ attempt' = 0
    /\ last_exception' = None /\ fetch_exception' = None
    /\ slept' = << >>
    /\ fetch_result' = [kind |-> "none"]
    /\ pc' = "request"

\* bars_daily = fetch_daily_klines_from_eastmoney(full, limit=130) is called
CycleFetchDaily ==
    /\ pc = "loop" /\ code_idx < Len(normalized)
    /\ HasQuote(quotes, normalized[code_idx + 1])
    /\ Computed(quotes[normalized[code_idx + 1]])
    /\ HistoryStart(DailyKlt)
    /\ requests' = << >>
    /\ bars' = << >>
    /\ UNCHANGED <<values, window, period, quote, out, normVars, resolveVars,
                   parseVars, queryVars>>

\* It returned; bars_60m = fetch_minute_klines_from_eastmoney(full, klt=60,
\* limit=200) is called
CycleFetchMinute ==
    /\ pc = "done" /\ klt = DailyKlt
    /\ fetch_result.kind = "bars"
    /\ bars' = fetch_result.bars
    /\ HistoryStart(MinuteKlt)
    /\ UNCHANGED <<requests, values, window, period, quote, out, normVars,
                   resolveVars, parseVars, queryVars>>

\* It returned: the indicators are worked out, print_quote_kv prints the
\* quote, details.append((full, quote))
CyclePrintsQuote ==
    /\ pc = "done" /\ klt = MinuteKlt
    /\ fetch_result.kind = "bars"
    /\ LET q    == quotes[normalized[code_idx + 1]]
           full == q.exchange \o q.code
       IN  /\ printed' = Append(printed, block_of(q, DailyIndicators[bars],
                                                  CycleMa12Values[bars][fetch_result.bars]))
           /\ details' = Append(details, <<full, q>>)
    /\ code_idx' = code_idx + 1
    /\ klt' = 0
    /\ pc' = "loop"
    /\ UNCHANGED <<show_detail, quotes, httpVars, fetchVars, normVars,
                   resolveVars, parseVars, calcVars>>

\* elif exchange == "hk": no history is fetched, the quote is printed
CycleQuoteNotComputed ==
    /\ pc = "loop" /\ code_idx < Len(normalized)
    /\ HasQuote(quotes, normalized[code_idx + 1])
    /\ ~Computed(quotes[normalized[code_idx + 1]])
    /\ LET q    == quotes[normalized[code_idx + 1]]
           full == q.exchange \o q.code
       IN  /\ printed' = Append(printed, block_of(q, NoIndicators, Nothing))
           /\ details' = Append(details, <<full, q>>)
    /\ code_idx' = code_idx + 1
    /\ UNCHANGED <<pc, show_detail, quotes, httpVars, fetchVars,
                   normVars, resolveVars, parseVars, histVars, calcVars>>

NextQueryHistory ==
    \/ QueryNothing
    \/ QueryFetchFails("timeout")
    \/ QueryFetchSucceeds
    \/ QueryPlaceholder
    \/ CycleFetchDaily
    \/ \E doc \in CycleDocs : HistorySucceeds(doc)
    \/ \E e \in HistoryErrors : HistoryFailsRetry(e)
    \/ \E e \in HistoryErrors : HistoryFailsFinal(e)
    \/ CycleFetchMinute
    \/ CyclePrintsQuote
    \/ CycleQuoteNotComputed
    \/ QueryDetails

SpecQueryHistory == InitQuery /\ [][NextQueryHistory]_vars

\* Requests a history fetch issues when every one of them fails
FetchAttempts == HistoryEndpoints * (HistoryMaxRetries + 1)

NoneOk(reqs) == \A i \in DOMAIN reqs : ~reqs[i].ok

\* The fetch that has just returned had every request of both endpoints fail
Exhausted ==
    /\ Len(requests) >= FetchAttempts
    /\ NoneOk(SubSeq(requests, Len(requests) - FetchAttempts + 1, Len(requests)))

\* So had both fetches made for the code being handled
BothExhausted == Len(requests) = 2 * FetchAttempts /\ NoneOk(requests)

\* The quote of q printed with every indicator as its placeholder
BareBlock(q) == block_of(q, NoIndicators, Nothing)

\* C22: a history fetch hands its caller a sequence of bars, never an
\* exception, and an empty one where every request of both endpoints
\* failed; where both fetches made for a code ended so, the step that
\* follows prints that code's quote with "-" for turnover, MA12 position,
\* KDJ J and MACD and moves on to the next code; and when the cycle ends
\* every code has its block.
ExhaustedHistoryStillQuotes ==
    /\ [](pc = "done" =>
            /\ fetch_result.kind = "bars"
            /\ Exhausted => fetch_result.bars = << >>)
    /\ [][(pc = "done" /\ klt = MinuteKlt /\ BothExhausted) =>
            /\ printed' = Append(printed, BareBlock(quotes[normalized[code_idx + 1]]))
            /\ code_idx' = code_idx + 1
            /\ pc' = "loop"]_vars
    /\ [](pc = "returned" => Len(CodeBlocks) = Len(normalized))

\* A cycle over sh600000 and sz000001 has ended: all 16 requests made for
\* the second code failed, the first code's quote had been printed before
\* and the second code's quote was printed with placeholders.
ExhaustedHistoryStillQuotesWitness ==
    /\ pc = "returned" /\ ~show_detail
    /\ normalized = << SH \o <<"6","0","0","0","0","0">>, SZ \o <<"0","0","0","0","0","1">> >>
    /\ BothExhausted
    /\ Len(printed) = 2
    /\ printed[1].kind = "quote" /\ printed[1].turnover # Nothing
    /\ printed[2] = BareBlock(quotes[normalized[2]])
    /\ printed[2].macd = Dash /\ printed[2].kdj_j = Nothing

=============================================================================
